---- MODULE Spec2Model ----
(***************************************************************************)
(* A model of eapi, the static analyser that extracts an OpenAPI document  *)
(* from a Go web service: the route/handler interpretation of the gin      *)
(* plugin, the command-line entrypoint, the definition index and the       *)
(* schema normalizer.  Each subsystem has its own variables and its own    *)
(* specification; a specification keeps the other subsystems idle.         *)
(*                                                                         *)
(* Strings the code inspects character by character (URL templates, the    *)
(* source text of literals) are sequences of one-character strings.       *)
(***************************************************************************)
EXTENDS Integers, Sequences, FiniteSets, TLC

VARIABLES
    \* plugins/gin: normalizePath applied to one URL template
    npIn, npOut,
    \* Analyzer.Process with the gin plugin: the traversal of the source tree
    srcTree, strictMode, scopes, apis, docSchemas, stmts, diags, exited, routePhase,
    \* Entrypoint: the configuration of one run
    cfg, flags, cfgFile, cfgPhase,
    \* Analyzer.loadDefinitionsFromPkg: the definition index of one package
    decls, cursor, pass, definitions, defPhase,
    \* spec.schemaNormalizer: the document being normalized
    comps, ops, visited, initKeys, pathsLeft, normPhase, normRun, firstRun, origDoc,
    \* the mangled keys of generic usages: at the usage site and in the normalizer
    usages, siteKeys, normKeys,
    \* Entrypoint.run: the environment of the run and what it has done
    host, events, runPhase,
    \* Logger: the global logger and its two outputs
    logger, output, errorOut, lastCall,
    \* Analyzer.lookupGoModFile: the directories that hold a go.mod and the walk
    goMods, lookArg, lookPath, lookOut, lookPhase,
    \* Analyzer.loadDefinitionsFromPkg: the packages, the walk over the imports and the packages whose definitions are registered
    world, pending, seenPkgs, registered, walkPhase,
    \* generatorExecutor.generate: the files still to write, the handles held open and the files written
    genItems, openFiles, wroteFiles, genPhase,
    \* ParamParser.parseField: the type expression of the field and the parameter built for it
    fieldExpr, paramOut, ppPhase

keyVars   == <<usages, siteKeys, normKeys>>
pathVars  == <<npIn, npOut>>
routeVars == <<srcTree, strictMode, scopes, apis, docSchemas, stmts, diags, exited, routePhase>>
cfgVars   == <<cfg, flags, cfgFile, cfgPhase>>
defVars   == <<decls, cursor, pass, definitions, defPhase>>
normVars  == <<comps, ops, visited, initKeys, pathsLeft, normPhase, normRun, firstRun, origDoc>>
runVars   == <<host, events, runPhase>>
logVars   == <<logger, output, errorOut, lastCall>>
modVars   == <<goMods, lookArg, lookPath, lookOut, lookPhase>>
pkgVars   == <<world, pending, seenPkgs, registered, walkPhase>>
genVars   == <<genItems, openFiles, wroteFiles, genPhase>>
ppVars    == <<fieldExpr, paramOut, ppPhase>>
vars      == <<ppVars, genVars, pkgVars, modVars, logVars, runVars, keyVars, pathVars, routeVars, cfgVars, defVars, normVars>>

(***************************************************************************)
(* Bounds of the model.                                                    *)
(***************************************************************************)
MaxPathLen == 3      \* longest URL template handed to normalizePath on its own
MaxStmts   == 3      \* statements and skipped nodes per traversal
MaxDepth   == 4      \* nesting of file / function / block scopes
MaxNesting == 5      \* the same, in the project with blocks inside blocks
MaxDirs    == 3      \* directories below the root on the way to a package
MaxDepends == 2      \* entries of the depends list
MaxFiles   == 3      \* files one generator prints
MaxWraps   == 2      \* pointers, arrays and qualifiers around the type name of a field
MaxDecls   == 3      \* top-level declarations of the package
MaxPasses  == 2      \* times loadDefinitionsFromPkg reaches the package
MaxOps     == 2      \* operations of the document
MaxRecursion == 8    \* nested calls of schemaNormalizer.process
MaxTypeArgs == 2     \* type arguments of a generic usage
MaxGenerators == 2   \* generators listed by the configuration
MaxLines == 2        \* lines written to each output of the logger

(***************************************************************************)
(* Helpers on sequences.                                                   *)
(***************************************************************************)
SeqsUpTo(S, n) == UNION {[1..k -> S] : k \in 0..n}

Range(s) == {s[i] : i \in DOMAIN s}

\* The string made of the characters.
RECURSIVE Str(_)
Str(chars) == IF chars = <<>> THEN "" ELSE chars[1] \o Str(Tail(chars))

(***************************************************************************)
(* The logger.                                                             *)
(***************************************************************************)
LogLevelSilent == 0
LogLevelError  == 1
LogLevelWarn   == 2
LogLevelInfo   == 3
LogLevelDebug  == 4

LogLevels == LogLevelSilent..LogLevelDebug

\* ParseLogLevel: the level a configured name stands for; a name that is not
\* a level stands for info.
ParseLogLevel(level) ==
    CASE level = "silent" -> LogLevelSilent
      [] level = "error" -> LogLevelError
      [] level \in {"warn", "warning"} -> LogLevelWarn
      [] level = "info" -> LogLevelInfo
      [] level = "debug" -> LogLevelDebug
      [] OTHER -> LogLevelInfo

\* NewLogger: the logger writes colorized lines without a timestamp, outside
\* strict mode.
NewLogger(level) ==
    [level |-> level, colorized |-> TRUE, timestamp |-> FALSE, strictMode |-> FALSE]

Red    == "\\033[31m"
Yellow == "\\033[33m"
Cyan   == "\\033[36m"
White  == "\\033[37m"

\* Logger.formatMessage: the line written for a message of a level.  The
\* timestamp of a line is not modelled: a logger never has timestamp set.
formatMessage(l, level, color, message) ==
    [color |-> IF l.colorized /\ color # "" THEN color ELSE "",
     level |-> level,
     message |-> message]

\* fmt.Fprintln of the bare message: a line with no level.
Plain(message) == [color |-> "", level |-> "", message |-> message]

\* Logger.Error: what the error writer holds after the call.
Error(l, w, message) ==
    IF l.level < LogLevelError THEN w
    ELSE Append(w, formatMessage(l, "ERROR", Red, message))

\* Logger.Warn: what the error writer holds after the call.
Warn(l, w, message) ==
    IF l.level < LogLevelWarn THEN w
    ELSE Append(w, formatMessage(l, "WARN", Yellow, message))

\* Logger.Info: what the output writer holds after the call.
Info(l, w, message) ==
    IF l.level < LogLevelInfo THEN w
    ELSE Append(w, formatMessage(l, "INFO", Cyan, message))

\* Logger.Debug: what the output writer holds after the call.
Debug(l, w, message) ==
    IF l.level < LogLevelDebug THEN w
    ELSE Append(w, formatMessage(l, "DEBUG", White, message))

\* Logger.StrictError: Error in strict mode, the bare message outside it.
StrictError(l, w, message) ==
    IF l.strictMode THEN Error(l, w, message) ELSE Append(w, Plain(message))

\* Logger.StrictWarn: Warn in strict mode, the bare message outside it.
StrictWarn(l, w, message) ==
    IF l.strictMode THEN Warn(l, w, message) ELSE Append(w, Plain(message))

(***************************************************************************)
(* Idle values of the subsystems a specification does not exercise.        *)
(***************************************************************************)
ParamIdle ==
    /\ fieldExpr = <<>>
    /\ paramOut = <<>>
    /\ ppPhase = "idle"

GenIdle ==
    /\ genItems = <<>>
    /\ openFiles = {}
    /\ wroteFiles = <<>>
    /\ genPhase = "idle"

PkgIdle ==
    /\ world = <<>>
    /\ pending = <<>>
    /\ seenPkgs = {}
    /\ registered = {}
    /\ walkPhase = "idle"

ModIdle ==
    /\ goMods = {}
    /\ lookArg = <<>>
    /\ lookPath = <<>>
    /\ lookOut = <<>>
    /\ lookPhase = "idle"

KeyIdle == usages = <<>> /\ siteKeys = <<>> /\ normKeys = <<>>

RunIdle == host = <<>> /\ events = <<>> /\ runPhase = "idle"

\* The global logger instance, before any call.
LogIdle ==
    /\ logger = NewLogger(LogLevelInfo)
    /\ output = <<>>
    /\ errorOut = <<>>
    /\ lastCall = ""

PathIdle == npIn = <<>> /\ npOut = <<>>

RouteIdle ==
    /\ srcTree = [lits |-> {}, methods |-> {}, handlers |-> {}, config |-> <<>>, depth |-> 0]
    /\ strictMode = FALSE
    /\ scopes = <<>>
    /\ apis = <<>>
    /\ docSchemas = <<>>
    /\ stmts = 0
    /\ diags = {}
    /\ exited = FALSE
    /\ routePhase = "idle"

CfgIdle ==
    /\ cfg = <<>>
    /\ flags = <<>>
    /\ cfgFile = <<>>
    /\ cfgPhase = "idle"

DefIdle ==
    /\ decls = <<>>
    /\ cursor = 0
    /\ pass = 0
    /\ definitions = <<>>
    /\ defPhase = "idle"

NormIdle ==
    /\ comps = <<>>
    /\ ops = <<>>
    /\ visited = {}
    /\ initKeys = {}
    /\ pathsLeft = {}
    /\ normPhase = "idle"
    /\ normRun = 0
    /\ firstRun = <<>>
    /\ origDoc = <<>>

(***************************************************************************)
(* plugins/gin/gin.go, plugins/echo/echo.go: URL templates.                *)
(***************************************************************************)
PathChars == {"/", ":", "*", "a", "b"}

\* The last index of the run of non-'/' characters of p that starts at i
\* (i - 1 when there is none): the greedy match of [^\/]+ at i.
RECURSIVE MatchEnd(_, _)
MatchEnd(p, i) ==
    IF i <= Len(p) /\ p[i] # "/" THEN MatchEnd(p, i + 1) ELSE i - 1

\* pathParamPattern = regexp.MustCompile(":([^\\/]+)"): whether it matches at i.
pathParamPattern(p, i) ==
    /\ i <= Len(p)
    /\ p[i] = ":"
    /\ MatchEnd(p, i + 1) >= i + 1

\* ReplaceAllStringFunc: the leftmost, non-overlapping matches, each replaced
\* by "{" + TrimPrefix(match, ":") + "}".
RECURSIVE ReplaceAllStringFunc(_, _)
ReplaceAllStringFunc(p, i) ==
    IF i > Len(p) THEN <<>>
    ELSE IF pathParamPattern(p, i)
         THEN LET j == MatchEnd(p, i + 1)
              IN  <<"{">> \o SubSeq(p, i + 1, j) \o <<"}">> \o ReplaceAllStringFunc(p, j + 1)
         ELSE <<p[i]>> \o ReplaceAllStringFunc(p, i + 1)

normalizePath(p) == ReplaceAllStringFunc(p, 1)

\* strings.Trim(s, c): s without its leading and trailing c characters.
RECURSIVE TrimLeft(_, _)
TrimLeft(s, c) == IF s # <<>> /\ s[1] = c THEN TrimLeft(Tail(s), c) ELSE s

RECURSIVE TrimRight(_, _)
TrimRight(s, c) ==
    IF s # <<>> /\ s[Len(s)] = c THEN TrimRight(SubSeq(s, 1, Len(s) - 1), c) ELSE s

stringsTrim(s, c) == TrimRight(TrimLeft(s, c), c)

\* The maximal runs of non-'/' characters of p, in order.
RECURSIVE Components(_)
Components(p) ==
    IF p = <<>> THEN <<>>
    ELSE IF p[1] = "/" THEN Components(Tail(p))
    ELSE LET j == MatchEnd(p, 1)
         IN  <<SubSeq(p, 1, j)>> \o Components(SubSeq(p, j + 1, Len(p)))

\* path.Clean's treatment of "." and ".." elements.
RECURSIVE CleanElems(_, _, _)
CleanElems(cs, out, rooted) ==
    IF cs = <<>> THEN out
    ELSE LET c == Head(cs)
         IN  IF c = <<".">> THEN CleanElems(Tail(cs), out, rooted)
             ELSE IF c = <<".", ".">>
                  THEN IF out # <<>> /\ out[Len(out)] # <<".", ".">>
                       THEN CleanElems(Tail(cs), SubSeq(out, 1, Len(out) - 1), rooted)
                       ELSE IF rooted THEN CleanElems(Tail(cs), out, rooted)
                            ELSE CleanElems(Tail(cs), Append(out, c), rooted)
                  ELSE CleanElems(Tail(cs), Append(out, c), rooted)

RECURSIVE JoinSlash(_)
JoinSlash(cs) ==
    IF cs = <<>> THEN <<>>
    ELSE IF Len(cs) = 1 THEN cs[1]
    ELSE cs[1] \o <<"/">> \o JoinSlash(Tail(cs))

\* path.Clean of the Go standard library.
pathClean(p) ==
    IF p = <<>> THEN <<".">>
    ELSE LET rooted == p[1] = "/"
             body   == JoinSlash(CleanElems(Components(p), <<>>, rooted))
         IN  IF rooted THEN <<"/">> \o body
             ELSE IF body = <<>> THEN <<".">> ELSE body

\* path.Join's buffer: an element is appended once the buffer is non-empty or
\* the element is.
RECURSIVE JoinBuf(_, _)
JoinBuf(elems, buf) ==
    IF elems = <<>> THEN buf
    ELSE LET e == Head(elems)
         IN  IF buf # <<>> THEN JoinBuf(Tail(elems), buf \o <<"/">> \o e)
             ELSE IF e # <<>> THEN JoinBuf(Tail(elems), e)
             ELSE JoinBuf(Tail(elems), buf)

\* path.Join of the Go standard library.
pathJoin(elems) ==
    IF \A i \in DOMAIN elems : elems[i] = <<>> THEN <<>>
    ELSE pathClean(JoinBuf(elems, <<>>))


(***************************************************************************)
(* The analysed source tree, as far as the gin plugin reads it.            *)
(***************************************************************************)
Quote == "\""

\* ast.BasicLit.Value of an interpreted string literal: its source text.
BasicLit(content) == <<Quote>> \o content \o <<Quote>>

\* Identifiers of router type: r is the engine, g and v hold route groups.
Idents == {"r", "g", "v"}

GroupIdents == {"g", "v"}

\* Contents of the path literals of Group and VERB calls.
RouteLits ==
    { <<>>, <<"a">>, <<"/", ":", "a">>, <<"/", "a", "/">> }

\* A call on the gin context inside a handler body: the method, the name the
\* call carries (the literal of Param and Query, the uri field of the struct
\* BindUri fills, the struct variable of ShouldBindWith and MustBindWith, ""
\* when its type cannot be resolved) and the binding selector ("none" when the
\* call has a single argument).  arg1 is the source text of a second literal
\* argument; status and payload are the arguments of a response emitter.
GinContext == "*github.com/gin-gonic/gin.Context"

NoPayload == [kind |-> "none"]

Call(fn, name, binding) ==
    [recv |-> GinContext, fn |-> fn, name |-> name, binding |-> binding,
     arg1 |-> <<>>, status |-> 0, payload |-> NoPayload,
     argc |-> 1, isLit |-> TRUE, arg1Lit |-> FALSE]

\* c.DefaultQuery("name", "v") and c.DefaultPostForm("name", "v").
DefaultCall(fn, name, content) ==
    [Call(fn, name, "") EXCEPT !.arg1 = BasicLit(content), !.argc = 2, !.arg1Lit = TRUE]

\* c.Query() and the like: a call without arguments.
NoArgCall(fn) == [Call(fn, "", "") EXCEPT !.argc = 0, !.isLit = FALSE]

\* c.Query(key): the name is not a string literal.
IdentCall(fn) == [Call(fn, "", "") EXCEPT !.isLit = FALSE]

\* c.DefaultQuery("name", def): the default is not a literal.
IdentDefaultCall(fn, name) == [Call(fn, name, "") EXCEPT !.argc = 2]

\* c.JSON(status, payload) and c.XML(status, payload).
ResCall(fn, status, payload) == [Call(fn, "", "") EXCEPT !.status = status, !.payload = payload]

\* A payload expression: a value of a named type, or the call T.M(x) of a
\* function returning ret on an argument of type arg.
TypeExpr(type) == [kind |-> "type", type |-> type]

CallExpr(recv, fn, ret, arg) == [kind |-> "call", recv |-> recv, fn |-> fn, ret |-> ret, arg |-> arg]

\* A handler function: whether the definition index holds it, whether its doc
\* comment carries @ignore, and the context calls of its body in source order.
Handler(name, defined, ignore, body) ==
    [name |-> name, defined |-> defined, ignore |-> ignore, body |-> body]

PlainHandler ==
    Handler("WrappedHandler", TRUE, FALSE, <<Call("Query", "hello", ""), Call("Query", "world", "")>>)

Handlers ==
    { PlainHandler,
      Handler("GoodsDown", TRUE, FALSE, <<Call("Param", "a", ""),
                                          DefaultCall("DefaultQuery", "defaultQuery", <<"x">>)>>),
      Handler("GoodsInfo", TRUE, FALSE, <<Call("BindUri", "a", ""), Call("JSON", "", "")>>),
      Handler("ParamThenUri", TRUE, FALSE, <<Call("Param", "a", ""), Call("BindUri", "a", "")>>),
      Handler("TestShouldBindWith", TRUE, FALSE, <<Call("ShouldBindWith", "req", "YAML")>>),
      Handler("BindHeader", TRUE, FALSE, <<Call("ShouldBindWith", "req", "Header"), Call("Param", "a", "")>>),
      Handler("TestMustBindQuery", TRUE, FALSE, <<Call("MustBindWith", "req", "none")>>),
      Handler("BindUnresolved", TRUE, FALSE, <<Call("ShouldBindWith", "", "JSON")>>),
      Handler("Hidden", TRUE, TRUE, <<Call("Param", "a", "")>>),
      Handler("Missing", FALSE, FALSE, <<>>) }

(***************************************************************************)
(* Environment: a chain of scopes, the innermost last.  A route group is   *)
(* bound with its prefix; chain records the normalized path segments the   *)
(* prefix was composed from (history, read by no operation).               *)
(***************************************************************************)
RouteGroup(prefix, chain) == [prefix |-> prefix, chain |-> chain]

NoGroup == RouteGroup(<<>>, <<>>)

EmptyEnv == [x \in {} |-> NoGroup]

Frame(kind, env) == [kind |-> kind, env |-> env]

\* Environment.Resolve: the innermost scope at or below i that binds name, 0 if none.
RECURSIVE Resolve(_, _, _)
Resolve(sc, name, i) ==
    IF i = 0 THEN 0
    ELSE IF name \in DOMAIN sc[i].env THEN i
    ELSE Resolve(sc, name, i - 1)

\* Environment.Lookup: walk outward from the innermost scope.
Lookup(sc, name) ==
    LET i == Resolve(sc, name, Len(sc))
    IN  IF i = 0 THEN NoGroup ELSE sc[i].env[name]

\* Environment.Define: bind in the innermost scope.
Define(sc, name, v) == [sc EXCEPT ![Len(sc)].env = (name :> v) @@ @]

\* Environment.Assign, on the scope Resolve returned.
Assign(sc, i, name, v) == [sc EXCEPT ![i].env = (name :> v) @@ @]

(***************************************************************************)
(* plugins/gin/handler_analyzer.go: the interpretation of a handler body.  *)
(***************************************************************************)
\* Schema.Default: nil until a default value is stored.
NoDefault == [set |-> FALSE, val |-> ""]

DefaultOf(v) == [set |-> TRUE, val |-> v]

Parameter(name, in, required) ==
    [name |-> name, in |-> in, required |-> required, default |-> NoDefault]

\* spec.NewPathParameter: a path parameter is always required.
NewPathParameter(name) == Parameter(name, "path", TRUE)

\* spec.NewQueryParameter; Required is then set from the heading comment of the
\* call, and the calls of the modelled handlers carry no @required.
NewQueryParameter(name) == Parameter(name, "query", FALSE)

\* primitiveParam without its switch on `in`: every parameter built as a query one.
primitiveParam_alwaysQuery(c, in) == NewQueryParameter(c.name)

\* The nil *spec.Parameter.
NilParameter == [nil |-> TRUE]

primitiveParam(c, in) ==
    IF c.argc <= 0 THEN NilParameter
    ELSE IF ~c.isLit THEN NilParameter
    ELSE IF in = "path" THEN NewPathParameter(c.name) ELSE NewQueryParameter(c.name)

\* strconv.Unquote of an interpreted string literal without escapes; any other
\* text is an error, which leaves "" (the error is dropped).
strconvUnquote(lit) ==
    IF Len(lit) >= 2 /\ lit[1] = Quote /\ lit[Len(lit)] = Quote
    THEN Str(SubSeq(lit, 2, Len(lit) - 1))
    ELSE ""

\* primitiveParamWithDefault without the default value.
primitiveParamWithDefault_noDefault(c, in) == primitiveParam(c, in)

primitiveParamWithDefault(c, in) ==
    IF c.argc < 2 THEN NilParameter
    ELSE IF primitiveParam(c, in) = NilParameter THEN NilParameter
    ELSE IF ~c.arg1Lit THEN NilParameter
    ELSE [primitiveParam(c, in) EXCEPT !.default = DefaultOf(strconvUnquote(c.arg1))]

\* APISpec.AddParameter: the parameter it is given, nil or not, is appended.
AddParameter(st, param) == [st EXCEPT !.params = Append(@, param)]

\* strcase.ToCamel of the operation id <package>.<function>: the separator
\* is dropped and each word starts with a capital.
Capitalized(word) == IF word = "shop" THEN "Shop" ELSE word

ToCamel(operationID) == Capitalized(operationID.pkg) \o Capitalized(operationID.fn)

MimeTypeFormData == "multipart/form-data"

MimeTypeJson == "application/json"

MimeApplicationXml == "application/xml"

\* The schema of one form field.
FormField(name, fieldType) ==
    [title |-> name, type |-> fieldType,
     items |-> IF fieldType = "array" THEN "string" ELSE "", default |-> NoDefault]

NoFields == [n \in {} |-> FormField("", "")]

\* Schema.WithProperty on the component key of the document's schemas; a
\* component the analyzer did not write counts with the fields added here.
WithProperty(schemas, key, name, field) ==
    LET fields == IF key \in DOMAIN schemas THEN schemas[key].properties ELSE NoFields
    IN  (key :> [title |-> key, properties |-> (name :> field) @@ fields]) @@ schemas

\* parseFormData that starts a new component at every call.
parseFormData_fresh(st, c, fieldType) ==
    LET title == ToCamel(st.operationID) \o "Request"
    IN  [st EXCEPT !.schemas = (title :> [title |-> title,
                                          properties |-> (c.name :> FormField(c.name, fieldType))]) @@ @,
                   !.formRef = title]

\* handlerAnalyzer.parseFormData.
parseFormData(st, c, fieldType) ==
    LET title == ToCamel(st.operationID) \o "Request"
    IN  IF c.argc <= 0 \/ ~c.isLit THEN st
        ELSE IF st.formRef # ""
        THEN [st EXCEPT !.schemas = WithProperty(@, st.formRef, c.name, FormField(c.name, fieldType))]
        ELSE [st EXCEPT !.schemas = WithProperty([k \in DOMAIN @ \ {title} |-> @[k]], title, c.name,
                                                 FormField(c.name, fieldType)),
                        !.formRef = title]

\* The schema the schema builder gives a type.
Translate(type) == [schemaOf |-> type]

\* ctx.GetSchemaByExpr: the schema of the static type of the expression, the
\* result type for a call.
GetSchemaByExpr(expr) == IF expr.kind = "call" THEN Translate(expr.ret) ELSE Translate(expr.type)

\* APISpec.AddResponse: the response entry of the status.
AddResponse(st, status, res) == [st EXCEPT !.responses = (status :> res) @@ @]

\* handlerAnalyzer.parseResBody.
parseResBody(st, c, contentType) ==
    IF c.payload = NoPayload THEN st
    ELSE AddResponse(st, c.status, [contentType |-> contentType, schema |-> GetSchemaByExpr(c.payload)])

\* A response rule of the configuration: calls of type.method emit the
\* wrapper {code, msg, data: args[0]} under the status and content type.
ResponseRule(type, method, status, contentType) ==
    [type |-> type, method |-> method, status |-> status, contentType |-> contentType]

Wrapper(data) ==
    [type |-> "object",
     properties |-> [code |-> [type |-> "number"], msg |-> [type |-> "string"], data |-> data]]

\* CustomRuleAnalyzer.MatchCustomResponseRule: the rules the node matches.
\* c.matches tells whether the matcher reports the calls of the rules at all.
MatchCustomResponseRule(c, node) ==
    {rule \in c.response : c.matches /\ rule.type = node.recv /\ rule.method = node.fn}

RECURSIVE applyRules(_, _, _)
applyRules(st, rules, node) ==
    IF rules = {} THEN st
    ELSE LET rule == CHOOSE r \in rules : TRUE
         IN  applyRules(AddResponse(st, rule.status,
                                    [contentType |-> rule.contentType,
                                     schema |-> Wrapper(Translate(node.arg))]),
                        rules \ {rule}, node)

\* lo.Filter(parameters, ref.Name != name).
RECURSIVE FilterName(_, _)
FilterName(ps, name) ==
    IF ps = <<>> THEN <<>>
    ELSE IF Head(ps).name = name THEN FilterName(Tail(ps), name)
    ELSE <<Head(ps)>> \o FilterName(Tail(ps), name)

parseBindUri(st, c) ==
    AddParameter([st EXCEPT !.params = FilterName(@, c.name)], NewPathParameter(c.name))

getContentTypeFromBinding(binding) ==
    CASE binding = "JSON" -> "application/json"
      [] binding = "YAML" -> "application/yaml"
      [] binding = "Form" -> "multipart/form-data"
      [] OTHER -> ""

parseBindWith(st, c) ==
    IF c.binding = "none" THEN st
    ELSE IF getContentTypeFromBinding(c.binding) = "" THEN [st EXCEPT !.exit = TRUE]
    ELSE IF c.name = "" THEN [st EXCEPT !.exit = TRUE]
    ELSE [st EXCEPT !.reqBody = getContentTypeFromBinding(c.binding),
                    !.formRef = IF getContentTypeFromBinding(c.binding) = MimeTypeFormData
                                THEN c.name ELSE ""]

\* handlerAnalyzer.parseBindWithContentType: the request body is replaced by
\* one with the content type alone; nothing is done when the call has not
\* one argument or the type of the argument has no schema.
parseBindWithContentType(st, c, contentType) ==
    IF c.argc # 1 THEN st
    ELSE IF c.name = "" THEN st
    ELSE [st EXCEPT !.reqBody = contentType,
                    !.formRef = IF contentType = MimeTypeFormData THEN c.name ELSE ""]

ParseCall(st, c) ==
    CASE c.fn = "Param" -> AddParameter(st, primitiveParam(c, "path"))
      [] c.fn = "Query" -> AddParameter(st, primitiveParam(c, "query"))
      [] c.fn = "BindUri" -> parseBindUri(st, c)
      [] c.fn \in {"ShouldBindWith", "MustBindWith"} -> parseBindWith(st, c)
      [] c.fn \in {"BindJSON", "ShouldBindJSON"} -> parseBindWithContentType(st, c, MimeTypeJson)
      [] c.fn \in {"BindXML", "ShouldBindXML"} -> parseBindWithContentType(st, c, MimeApplicationXml)
      [] c.fn = "JSON" -> parseResBody(st, c, MimeTypeJson)
      [] c.fn = "XML" -> parseResBody(st, c, MimeApplicationXml)
      [] c.fn \in {"PostForm", "GetPostForm"} -> parseFormData(st, c, "string")
      [] c.fn = "FormFile" -> parseFormData(st, c, "file")
      [] c.fn \in {"PostFormArray", "GetPostFormArray"} -> parseFormData(st, c, "array")
      [] c.fn = "DefaultQuery" -> AddParameter(st, primitiveParamWithDefault(c, "query"))
      [] c.fn = "DefaultPostForm" -> parseFormData(st, c, "string")
      [] OTHER -> st

\* ast.Inspect visits a call before the calls among its arguments.
RECURSIVE InspectNodes(_)
InspectNodes(body) ==
    IF body = <<>> THEN <<>>
    ELSE LET c == Head(body)
         IN  <<c>> \o (IF c.payload.kind = "call"
                       THEN <<[recv |-> c.payload.recv, fn |-> c.payload.fn, arg |-> c.payload.arg]>>
                       ELSE <<>>)
                  \o InspectNodes(Tail(body))

\* The function handed to ast.Inspect: a node a response rule matches is
\* left to the rule; any other is matched against the gin context methods.
ParseNode(st, node, c) ==
    IF MatchCustomResponseRule(c, node) # {}
    THEN applyRules(st, MatchCustomResponseRule(c, node), node)
    ELSE IF node.recv = GinContext THEN ParseCall(st, node)
    ELSE st

\* handlerAnalyzer.Parse: the nodes of the body in source order; os.Exit ends
\* the process at the call that reaches it.
RECURSIVE ParseNodes(_, _, _)
ParseNodes(st, nodes, c) ==
    IF nodes = <<>> \/ st.exit THEN st
    ELSE ParseNodes(ParseNode(st, Head(nodes), c), Tail(nodes), c)

Parse(st, body, c) == ParseNodes(st, InspectNodes(body), c)

NoResponses == [status \in {} |-> NoPayload]

NoSchemas == [key \in {} |-> NoPayload]

NewAPISpec ==
    [params |-> <<>>, reqBody |-> "", formRef |-> "", responses |-> NoResponses,
     schemas |-> NoSchemas, operationID |-> [pkg |-> "", fn |-> ""], exit |-> FALSE]

(***************************************************************************)
(* plugins/gin/gin.go: route groups and route registrations.               *)
(***************************************************************************)
\* groupOf without the lookup of the receiver's prefix.
groupOf_noPrefix(sc, recv, lit) ==
    LET seg == normalizePath(stringsTrim(lit, Quote))
    IN  RouteGroup(pathJoin(<<seg>>), Append(Lookup(sc, recv).chain, seg))

\* The group a `recv.Group(lit)` call produces under the scopes sc.
groupOf(sc, recv, lit) ==
    LET seg == normalizePath(stringsTrim(lit, Quote))
        rg  == Lookup(sc, recv)
    IN  RouteGroup(pathJoin(<<rg.prefix, seg>>), Append(rg.chain, seg))

\* assignStmt with every assignment treated as a definition.
assignStmt_define(sc, x, tok, recv, lit) == Define(sc, x, groupOf(sc, recv, lit))

\* assignStmt: x = recv.Group(lit) or x := recv.Group(lit).
assignStmt(sc, x, tok, recv, lit) ==
    LET rg == groupOf(sc, recv, lit)
        i  == Resolve(sc, x, Len(sc))
    IN  IF tok = "=" /\ i # 0 THEN Assign(sc, i, x, rg) ELSE Define(sc, x, rg)

fullPathOf(sc, recv, lit) ==
    pathJoin(<<Lookup(sc, recv).prefix, normalizePath(stringsTrim(lit, Quote))>>)

\* parseAPI, for a call with a literal path and a handler the type checker
\* resolved to a function h whose definition is indexed.
parseAPI(sc, recv, method, lit, h, schemas, c) ==
    LET st == Parse([NewAPISpec EXCEPT !.operationID = [pkg |-> "shop", fn |-> h.name],
                                       !.schemas = schemas],
                    h.body, c)
    IN  [method |-> method,
         fullPath |-> fullPathOf(sc, recv, lit),
         chain |-> Append(Lookup(sc, recv).chain, normalizePath(stringsTrim(lit, Quote))),
         handler |-> h.name,
         handlerIgnore |-> h.ignore,
         params |-> st.params,
         reqBody |-> st.reqBody,
         formRef |-> st.formRef,
         responses |-> st.responses,
         schemas |-> st.schemas,
         exit |-> st.exit]

(***************************************************************************)
(* Analyzer.Process: the traversal of one package.                         *)
(***************************************************************************)
Top == scopes[Len(scopes)]

Analysing == routePhase = "analysis"

\* A node whose doc or heading comment carries @ignore: the function that
\* was to process it returns at once.
Skip ==
    /\ stmts' = stmts + 1
    /\ UNCHANGED <<srcTree, strictMode, scopes, apis, docSchemas, diags, exited, routePhase>>

Enter(kind) ==
    /\ scopes' = Append(scopes, Frame(kind, EmptyEnv))
    /\ UNCHANGED <<srcTree, strictMode, apis, docSchemas, stmts, diags, exited, routePhase>>

processFile ==
    /\ Analysing
    /\ Top.kind = "package"
    /\ stmts < MaxStmts
    /\ \E ignore \in BOOLEAN : IF ignore THEN Skip ELSE Enter("file")
    /\ UNCHANGED <<ppVars, genVars, pkgVars, modVars, logVars, runVars, keyVars, pathVars, cfgVars, defVars, normVars>>

funDecl ==
    /\ Analysing
    /\ Top.kind = "file"
    /\ stmts < MaxStmts
    /\ \E ignore \in BOOLEAN : IF ignore THEN Skip ELSE Enter("func")
    /\ UNCHANGED <<ppVars, genVars, pkgVars, modVars, logVars, runVars, keyVars, pathVars, cfgVars, defVars, normVars>>

blockStmt ==
    /\ Analysing
    /\ Top.kind \in {"func", "block"}
    /\ Len(scopes) < srcTree.depth
    /\ stmts < MaxStmts
    /\ \E ignore \in BOOLEAN : IF ignore THEN Skip ELSE Enter("block")
    /\ UNCHANGED <<ppVars, genVars, pkgVars, modVars, logVars, runVars, keyVars, pathVars, cfgVars, defVars, normVars>>

\* The traversal leaves the node it is in.
Leave ==
    /\ Analysing
    /\ Len(scopes) > 1
    /\ scopes' = SubSeq(scopes, 1, Len(scopes) - 1)
    /\ UNCHANGED <<srcTree, strictMode, apis, docSchemas, stmts, diags, exited, routePhase>>
    /\ UNCHANGED <<ppVars, genVars, pkgVars, modVars, logVars, runVars, keyVars, pathVars, cfgVars, defVars, normVars>>

AssignGroup ==
    /\ Analysing
    /\ Top.kind = "block"
    /\ stmts < MaxStmts
    /\ \E x \in GroupIdents, tok \in {"=", ":="}, recv \in Idents, lit \in srcTree.lits :
         scopes' = assignStmt(scopes, x, tok, recv, BasicLit(lit))
    /\ stmts' = stmts + 1
    /\ UNCHANGED <<srcTree, strictMode, apis, docSchemas, diags, exited, routePhase>>
    /\ UNCHANGED <<ppVars, genVars, pkgVars, modVars, logVars, runVars, keyVars, pathVars, cfgVars, defVars, normVars>>

\* callExpr with parseAPI and ctx.AddAPI.
RouteCall ==
    /\ Analysing
    /\ Top.kind = "block"
    /\ stmts < MaxStmts
    /\ stmts' = stmts + 1
    /\ \E ignore \in BOOLEAN, recv \in Idents, method \in srcTree.methods,
          lit \in srcTree.lits, h \in srcTree.handlers :
         \E api \in {parseAPI(scopes, recv, method, BasicLit(lit), h, docSchemas, srcTree.config)} :
             IF ignore
             THEN UNCHANGED <<apis, docSchemas, diags, exited, routePhase>>
             ELSE IF ~h.defined
             THEN /\ diags' = diags \cup {"handler function not found"}
                  /\ UNCHANGED <<apis, docSchemas, exited, routePhase>>
             ELSE IF api.exit
             THEN /\ exited' = TRUE
                  /\ routePhase' = "exited"
                  /\ UNCHANGED <<apis, docSchemas, diags>>
             ELSE /\ apis' = Append(apis, [k \in DOMAIN api \ {"schemas"} |-> api[k]])
                  /\ docSchemas' = api.schemas
                  /\ UNCHANGED <<diags, exited, routePhase>>
    /\ UNCHANGED <<srcTree, strictMode, scopes>>
    /\ UNCHANGED <<ppVars, genVars, pkgVars, modVars, logVars, runVars, keyVars, pathVars, cfgVars, defVars, normVars>>

\* Process returns once every package has been traversed.
ProcessDone ==
    /\ Analysing
    /\ Len(scopes) = 1
    /\ routePhase' = "done"
    /\ UNCHANGED <<srcTree, strictMode, scopes, apis, docSchemas, stmts, diags, exited>>
    /\ UNCHANGED <<ppVars, genVars, pkgVars, modVars, logVars, runVars, keyVars, pathVars, cfgVars, defVars, normVars>>

RouteNext ==
    \/ processFile
    \/ funDecl
    \/ blockStmt
    \/ Leave
    \/ AssignGroup
    \/ RouteCall
    \/ ProcessDone

RouteStart(tree, stricts) ==
    /\ srcTree = tree
    /\ strictMode \in stricts
    /\ scopes = <<Frame("package", EmptyEnv)>>
    /\ apis = <<>>
    /\ docSchemas = NoSchemas
    /\ stmts = 0
    /\ diags = {}
    /\ exited = FALSE
    /\ routePhase = "analysis"

\* The plugin configuration without response rules.
NoRules == [response |-> {}, matches |-> FALSE]

\* A project whose routes are spread over groups, with one plain handler.
GroupProject ==
    [lits |-> RouteLits, methods |-> {"GET"}, handlers |-> {PlainHandler}, config |-> NoRules,
     depth |-> MaxDepth]

\* A project with one path literal and the handlers of every shape.
HandlerProject ==
    [lits |-> {<<"/", ":", "a">>}, methods |-> {"GET"}, handlers |-> Handlers, config |-> NoRules,
     depth |-> MaxDepth]

\* The response rule of the configuration for the package-level function
\* E.Success.  Whether the call matcher reports such a call under the rule's
\* type is decided outside the plugin, so both answers are configurations.
ESuccessRule == ResponseRule("server/pkg/E", "Success", 200, MimeTypeJson)

PluginConfigs == [response : {{ESuccessRule}}, matches : BOOLEAN]

ESuccess(arg) == CallExpr("server/pkg/E", "Success", "map[string]interface {}", arg)

\* func GoodsDown of the shop package.
GoodsDown ==
    Handler("GoodsDown", TRUE, FALSE,
            <<Call("Param", "guid", ""),
              Call("PostForm", "operatorUid", ""),
              Call("GetPostFormArray", "dateRange", ""),
              DefaultCall("DefaultQuery", "defaultQuery", <<"x", "x", "x", "x">>),
              DefaultCall("DefaultPostForm", "defaultPostForm", <<"y", "y", "y", "y">>),
              ResCall("XML", 200, TypeExpr("view.GoodsDownRes"))>>)

\* func TestESuccess of the shop package.
TestESuccess ==
    Handler("TestESuccess", TRUE, FALSE, <<ResCall("JSON", 200, ESuccess("view.GoodsInfoRes"))>>)

\* The handlers that read form data.
FormHandlers ==
    { GoodsDown,
      Handler("Upload", TRUE, FALSE,
              <<Call("FormFile", "file", ""), Call("GetPostForm", "operatorUid", "")>>),
      Handler("Twice", TRUE, FALSE,
              <<Call("PostFormArray", "dateRange", ""), Call("PostForm", "dateRange", ""),
                DefaultCall("DefaultPostForm", "page", <<"1">>)>>),
      Handler("FormThenBindJSON", TRUE, FALSE,
              <<Call("PostForm", "operatorUid", ""), Call("ShouldBindJSON", "req", "")>>),
      Handler("BindXMLThenForm", TRUE, FALSE,
              <<Call("BindXML", "req", ""), Call("FormFile", "file", "")>>),
      Handler("FormThenBind", TRUE, FALSE,
              <<Call("PostForm", "operatorUid", ""), Call("ShouldBindWith", "req", "JSON"),
                Call("PostForm", "file", "")>>) }

\* The handlers that only emit a response.
ResponseHandlers ==
    { TestESuccess,
      Handler("Rejected", TRUE, FALSE, <<ResCall("JSON", 400, ESuccess("view.Error"))>>),
      Handler("Info", TRUE, FALSE, <<ResCall("JSON", 200, TypeExpr("view.GoodsInfoRes"))>>) }

\* The handlers whose parameter calls lack a literal name or default.
ArgHandlers ==
    { Handler("Paged", TRUE, FALSE,
              <<Call("Query", "page", ""), DefaultCall("DefaultQuery", "size", <<"1", "0">>)>>),
      Handler("ByKey", TRUE, FALSE, <<Call("Query", "page", ""), IdentCall("Query")>>),
      Handler("ByID", TRUE, FALSE, <<IdentCall("Param")>>),
      Handler("NoName", TRUE, FALSE, <<NoArgCall("Query")>>),
      Handler("OneArg", TRUE, FALSE, <<Call("DefaultQuery", "size", "")>>),
      Handler("KeyDefault", TRUE, FALSE, <<IdentDefaultCall("DefaultQuery", "size")>>),
      Handler("FormKey", TRUE, FALSE, <<IdentCall("PostForm"), IdentCall("DefaultQuery")>>) }

\* A project whose handlers read parameters under computed names.
ArgProject ==
    [lits |-> {<<"/", "a">>}, methods |-> {"GET"}, handlers |-> ArgHandlers, config |-> NoRules,
     depth |-> MaxDepth]

ArgInit == ParamIdle /\ GenIdle /\ PkgIdle /\ ModIdle /\ LogIdle /\ RunIdle /\ KeyIdle /\ PathIdle /\ RouteStart(ArgProject, {FALSE}) /\ CfgIdle /\ DefIdle /\ NormIdle

SpecArgs == ArgInit /\ [][RouteNext]_vars

\* C27: AddParameter is never called with a nil parameter: no operation
\* holds a nil entry in its parameter list, and a call without a literal
\* name or default leaves the list as it was.
C27_NoNilParameter ==
    \A k \in DOMAIN apis : \A i \in DOMAIN apis[k].params :
        apis[k].params[i] # NilParameter

\* A project whose handlers read form data and emit responses.
BodyProjects ==
    [lits : {{<<"/", "a">>}}, methods : {{"POST"}}, handlers : {FormHandlers, ResponseHandlers},
     config : PluginConfigs, depth : {MaxDepth}]

BodyInit ==
    /\ \E tree \in BodyProjects : RouteStart(tree, {FALSE})
    /\ ParamIdle /\ GenIdle /\ PkgIdle /\ ModIdle /\ LogIdle /\ RunIdle /\ KeyIdle /\ PathIdle /\ CfgIdle /\ DefIdle /\ NormIdle

SpecBody == BodyInit /\ [][RouteNext]_vars

RouteInit == ParamIdle /\ GenIdle /\ PkgIdle /\ ModIdle /\ LogIdle /\ RunIdle /\ KeyIdle /\ PathIdle /\ RouteStart(GroupProject, {FALSE}) /\ CfgIdle /\ DefIdle /\ NormIdle

SpecRoute == RouteInit /\ [][RouteNext]_vars

\* A project whose groups are made from two path literals, nested in blocks.
ScopeProject ==
    [lits |-> {<<"a">>, <<"/", "b">>}, methods |-> {"GET"}, handlers |-> {PlainHandler},
     config |-> NoRules, depth |-> MaxNesting]

ScopeInit == ParamIdle /\ GenIdle /\ PkgIdle /\ ModIdle /\ LogIdle /\ RunIdle /\ KeyIdle /\ PathIdle /\ RouteStart(ScopeProject, {FALSE}) /\ CfgIdle /\ DefIdle /\ NormIdle

SpecScope == ScopeInit /\ [][RouteNext]_vars

HandlerInit == ParamIdle /\ GenIdle /\ PkgIdle /\ ModIdle /\ LogIdle /\ RunIdle /\ KeyIdle /\ PathIdle /\ RouteStart(HandlerProject, BOOLEAN) /\ CfgIdle /\ DefIdle /\ NormIdle

SpecHandler == HandlerInit /\ [][RouteNext]_vars

(***************************************************************************)
(* Properties of the routes.                                               *)
(***************************************************************************)
Bindings ==
    UNION {{scopes[i].env[x] : x \in DOMAIN scopes[i].env} : i \in DOMAIN scopes}

HandlerNamed(n) == CHOOSE h \in srcTree.handlers : h.name = n

\* The names x of the {x} segments of a full path.
Placeholders(p) ==
    LET cs == Components(p)
    IN  {SubSeq(cs[i], 2, Len(cs[i]) - 1) :
            i \in {j \in DOMAIN cs : Len(cs[j]) >= 2 /\ cs[j][1] = "{" /\ cs[j][Len(cs[j])] = "}"}}

Name(str) == <<str>>

PathParams(api) == {i \in DOMAIN api.params : api.params[i].in = "path"}

\* The names a handler body reads from the path: Param("x") and uri-bound fields.
PathNamesRead(body) ==
    {body[i].name : i \in {j \in DOMAIN body : body[j].fn \in {"Param", "BindUri"}}}

C5_GroupComposition ==
    /\ \A rg \in Bindings : rg.prefix = pathJoin(rg.chain)
    /\ \A k \in DOMAIN apis : apis[k].fullPath = pathJoin(apis[k].chain)

C5_Witness ==
    \E k \in DOMAIN apis :
        /\ Len(apis[k].chain) = 3
        /\ \A i \in 1..3 : apis[k].chain[i] # <<>>
        /\ Len(apis[k].fullPath) > Len(apis[k].chain[3]) + 1

\* C6: every API full path starts with '/' and contains no ':param' segment,
\* whatever the literal and the prefix, the empty prefix included.
C6_FullPathRooted ==
    \A k \in DOMAIN apis :
        /\ apis[k].fullPath # <<>>
        /\ apis[k].fullPath[1] = "/"
        /\ \A i \in DOMAIN apis[k].fullPath : apis[k].fullPath[i] # ":"

\* C8: @ignore is a hard gate; in particular no API is built by interpreting
\* a handler function whose declaration carries @ignore.
C8_IgnoredHandlerNotInterpreted ==
    \A k \in DOMAIN apis : ~apis[k].handlerIgnore

\* C10: an analysis error (a missing handler definition, an unresolvable
\* type, a BindWith call whose content type cannot be determined) never
\* terminates the run, in strict mode or not.
C10_AnalysisNeverExits == ~exited

\* The calls of the body that read form data, and their names.
FormFns == {"PostForm", "GetPostForm", "FormFile", "PostFormArray", "GetPostFormArray",
            "DefaultPostForm"}

FormNames(body) == {body[i].name : i \in {j \in DOMAIN body : body[j].fn \in FormFns}}

BindFns == {"ShouldBindWith", "MustBindWith", "BindJSON", "ShouldBindJSON", "BindXML", "ShouldBindXML"}

Binds(body) == \E i \in DOMAIN body : body[i].fn \in BindFns

\* The fields of the form-data component after the body has been parsed.
FormFieldsAfter(h, body) ==
    LET st == Parse([NewAPISpec EXCEPT !.operationID = [pkg |-> "shop", fn |-> h.name]],
                    body, srcTree.config)
    IN  IF st.formRef = "" THEN {} ELSE DOMAIN st.schemas[st.formRef].properties

\* C14: form data accumulates: for a handler whose body binds no struct, the
\* request body refers to one form-data component whose properties are
\* exactly the names of the form calls of the body, and after every prefix
\* of the body the component holds exactly the names read so far.
C14_FormDataAccumulates ==
    \A k \in DOMAIN apis :
        LET h == HandlerNamed(apis[k].handler)
        IN  ~Binds(h.body) =>
              /\ FormNames(h.body) # {} =>
                    /\ apis[k].formRef \in DOMAIN docSchemas
                    /\ DOMAIN docSchemas[apis[k].formRef].properties = FormNames(h.body)
              /\ FormNames(h.body) = {} => apis[k].formRef = ""
              /\ \A n \in 0..Len(h.body) :
                    FormFieldsAfter(h, SubSeq(h.body, 1, n)) = FormNames(SubSeq(h.body, 1, n))

\* C29: a binding call never discards the form data read before it: for
\* every operation, each name a form call of the body read is a property of
\* the form-data component the request body refers to.
C29_BindKeepsFormData ==
    \A k \in DOMAIN apis :
        LET h == HandlerNamed(apis[k].handler)
        IN  FormNames(h.body) # {} =>
              /\ apis[k].formRef \in DOMAIN docSchemas
              /\ FormNames(h.body) \subseteq DOMAIN docSchemas[apis[k].formRef].properties

C14_Witness ==
    \E k \in DOMAIN apis :
        /\ apis[k].handler = "GoodsDown"
        /\ apis[k].formRef = "ShopGoodsDownRequest"
        /\ DOMAIN docSchemas["ShopGoodsDownRequest"].properties
              = {"operatorUid", "dateRange", "defaultPostForm"}
        /\ docSchemas["ShopGoodsDownRequest"].properties["dateRange"].type = "array"

\* The Default* calls of a body.
DefaultCalls(body, fn) == {body[i] : i \in {j \in DOMAIN body : body[j].fn = fn}}

QueryDefaultsCarried(api, body) ==
    \A c \in DefaultCalls(body, "DefaultQuery") :
        \E i \in DOMAIN api.params :
            /\ api.params[i].name = c.name
            /\ api.params[i].in = "query"
            /\ api.params[i].default = DefaultOf(Str(SubSeq(c.arg1, 2, Len(c.arg1) - 1)))

\* C15 as stated: the parameter of a DefaultQuery call and the form property
\* of a DefaultPostForm call carry the literal second argument as default.
C15_DefaultsCarried ==
    \A k \in DOMAIN apis :
        LET body == HandlerNamed(apis[k].handler).body
        IN  /\ QueryDefaultsCarried(apis[k], body)
            /\ ~Binds(body) =>
                  \A c \in DefaultCalls(body, "DefaultPostForm") :
                      docSchemas[apis[k].formRef].properties[c.name].default
                          = DefaultOf(Str(SubSeq(c.arg1, 2, Len(c.arg1) - 1)))

\* C15, amended: the query parameter of a DefaultQuery call carries the
\* literal second argument as its default; the form property of a
\* DefaultPostForm call is a string property without a default value.
C15_QueryDefaultsOnly ==
    \A k \in DOMAIN apis :
        LET body == HandlerNamed(apis[k].handler).body
        IN  /\ QueryDefaultsCarried(apis[k], body)
            /\ ~Binds(body) =>
                  \A c \in DefaultCalls(body, "DefaultPostForm") :
                      /\ docSchemas[apis[k].formRef].properties[c.name].default = NoDefault
                      /\ docSchemas[apis[k].formRef].properties[c.name].type = "string"

C15_Witness ==
    \E k \in DOMAIN apis :
        /\ apis[k].handler = "GoodsDown"
        /\ \E i \in DOMAIN apis[k].params :
              /\ apis[k].params[i].name = "defaultQuery"
              /\ apis[k].params[i].default = DefaultOf("xxxx")
        /\ docSchemas[apis[k].formRef].properties["defaultPostForm"].default = NoDefault

\* The statements c.JSON(status, T.M(x)) of a body whose T.M has a response
\* rule in the configuration.
WrappedJSON(body) ==
    {body[i] : i \in {j \in DOMAIN body :
                        /\ body[j].fn = "JSON"
                        /\ body[j].payload.kind = "call"
                        /\ \E rule \in srcTree.config.response :
                              rule.type = body[j].payload.recv /\ rule.method = body[j].payload.fn}}

\* C16: for a statement c.JSON(status, T.M(x)) with a response rule for T.M,
\* the response of that status is the wrapper object whose data property is
\* the schema of x's type, not the schema of the wrapper call's result type.
C16_WrapperResponse ==
    \A k \in DOMAIN apis :
        \A c \in WrappedJSON(HandlerNamed(apis[k].handler).body) :
            /\ c.status \in DOMAIN apis[k].responses
            /\ apis[k].responses[c.status].contentType = MimeTypeJson
            /\ apis[k].responses[c.status].schema = Wrapper(Translate(c.payload.arg))


(***************************************************************************)
(* entrypoint.go: the configuration of one run.                            *)
(***************************************************************************)
\* A value given on the command line or in the configuration file.
Some(v) == [set |-> TRUE, val |-> v]

\* A flag left off the command line, carrying the flag's default Value; a key
\* left out of the file.
None(v) == [set |-> FALSE, val |-> v]

\* NewEntrypoint: the defaults of Config.
NewEntrypointCfg ==
    [plugin |-> "gin", dir |-> ".", output |-> "docs", depends |-> <<>>,
     strictMode |-> FALSE, logLevel |-> "info"]

\* The command lines: each flag given or left at its declared default.
CommandLines ==
    [plugin : {None(""), Some("gin"), Some("echo")},
     dir : {None(""), Some("src")},
     output : {None(""), Some("out")},
     depends : {None(<<>>), Some(<<"m1">>)},
     strictMode : {None(FALSE), Some(TRUE)},
     logLevel : {None("info"), Some("debug")}]

NoFlags ==
    [plugin |-> None(""), dir |-> None(""), output |-> None(""), depends |-> None(<<>>),
     strictMode |-> None(FALSE), logLevel |-> None("info")]

\* The configuration files: --config or an eapi.yaml of the working directory,
\* with each key present or not; or no file at all.
ConfigFiles ==
    [present : {TRUE},
     loadable : {TRUE},
     plugin : {None(""), Some("gin"), Some("echo")},
     dir : {None(""), Some("svc")},
     output : {None(""), Some("api")},
     depends : {None(<<>>), Some(<<"m3">>), Some(<<"m3", "m4">>)},
     strictMode : {None(FALSE), Some(FALSE), Some(TRUE)},
     logLevel : {None(""), Some("error")}]

NoFile ==
    [present |-> FALSE, loadable |-> FALSE, plugin |-> None(""), dir |-> None(""), output |-> None(""),
     depends |-> None(<<>>), strictMode |-> None(FALSE), logLevel |-> None("")]

\* A file koanf.Load fails on: one that cannot be read or is not YAML.
BadFile == [NoFile EXCEPT !.present = TRUE]

\* cli: Apply registers a flag with a Destination through flag.StringVar /
\* flag.BoolVar, which stores the flag's default Value in the destination;
\* parsing then stores the value given.  The Action of --depends runs only
\* when the flag is given.
applyFlags(c, f) ==
    [plugin |-> f.plugin.val,
     dir |-> f.dir.val,
     output |-> f.output.val,
     depends |-> IF f.depends.set THEN f.depends.val ELSE c.depends,
     strictMode |-> f.strictMode.val,
     logLevel |-> f.logLevel.val]

\* koanf.Unmarshal("", &e.cfg): every key of the file is stored in its field.
\* A list of the file is at least as long as the slice it is decoded into,
\* which then ends equal to the list.
Unmarshal(c, file) ==
    [plugin |-> IF file.plugin.set THEN file.plugin.val ELSE c.plugin,
     dir |-> IF file.dir.set THEN file.dir.val ELSE c.dir,
     output |-> IF file.output.set THEN file.output.val ELSE c.output,
     depends |-> IF file.depends.set THEN file.depends.val ELSE c.depends,
     strictMode |-> IF file.strictMode.set THEN file.strictMode.val ELSE c.strictMode,
     logLevel |-> IF file.logLevel.set THEN file.logLevel.val ELSE c.logLevel]

\* Entrypoint.before: the fallbacks for an empty dir and output.
fallbacks(c) ==
    [c EXCEPT !.dir = IF @ = "" THEN "." ELSE @,
              !.output = IF @ = "" THEN "docs" ELSE @]

\* Entrypoint.Run up to the call of app.Action: the flags are applied.
ParseArgs ==
    /\ cfgPhase = "new"
    /\ \E f \in CommandLines :
         /\ flags' = f
         /\ cfg' = applyFlags(cfg, f)
    /\ cfgPhase' = "parsed"
    /\ UNCHANGED cfgFile
    /\ UNCHANGED <<ppVars, genVars, pkgVars, modVars, logVars, runVars, keyVars, pathVars, routeVars, defVars, normVars>>

\* Entrypoint.before, called first by Entrypoint.run: the file is loaded and
\* unmarshalled, the plugin is required, the fallbacks are applied and the
\* global logger is set up.  An error of loadConfig returns before anything
\* is stored.
before ==
    /\ cfgPhase = "parsed"
    /\ \E file \in ConfigFiles \cup {NoFile, BadFile} :
         /\ cfgFile' = file
         /\ IF file.present /\ ~file.loadable
            THEN cfg' = cfg /\ cfgPhase' = "failed" /\ logger' = logger
            ELSE LET loaded == IF file.present THEN Unmarshal(cfg, file) ELSE cfg
                     ready == fallbacks(loaded)
                 IN  IF loaded.plugin = ""
                     THEN cfg' = loaded /\ cfgPhase' = "failed" /\ logger' = logger
                     ELSE /\ cfg' = ready
                          /\ cfgPhase' = "ready"
                          /\ logger' = [logger EXCEPT
                                          !.level = ParseLogLevel(ready.logLevel),
                                          !.strictMode = ready.strictMode]
    /\ UNCHANGED <<flags, output, errorOut, lastCall>>
    /\ UNCHANGED <<ppVars, genVars, pkgVars, modVars, runVars, keyVars, pathVars, routeVars, defVars, normVars>>

CfgNext ==
    \/ ParseArgs
    \/ before

CfgInit ==
    /\ cfg = NewEntrypointCfg
    /\ flags = NoFlags
    /\ cfgFile = NoFile
    /\ cfgPhase = "new"
    /\ ParamIdle /\ GenIdle /\ PkgIdle /\ ModIdle /\ LogIdle /\ RunIdle /\ KeyIdle /\ PathIdle /\ RouteIdle /\ DefIdle /\ NormIdle

SpecCfg == CfgInit /\ [][CfgNext]_vars

(***************************************************************************)
(* Entrypoint.run: from the configuration to the written documentation.    *)
(***************************************************************************)

\* What the run finds around it: the plugins registered with the entrypoint,
\* what os.Stat reports for the configured dir, and how many generators the
\* configuration lists.
Hosts ==
    [plugins : {{"gin"}},
     stat : {"missing", "file", "dir"},
     generators : 0..MaxGenerators]

\* The command lines of a run: the plugin given or not.
RunCommandLines == {[NoFlags EXCEPT !.plugin = p] : p \in {None(""), Some("gin"), Some("echo")}}

checkInputs_none(c, h) == ""

\* Entrypoint.run between before and os.MkdirAll: the error the plugin lookup
\* and the os.Stat of dir end the run with, "" when there is none.
checkInputs(c, h) ==
    IF c.plugin \notin h.plugins THEN "plugin not exists"
    ELSE IF h.stat = "missing" THEN "stat"
    ELSE IF h.stat # "dir" THEN "is not a directory"
    ELSE ""

\* Entrypoint.run, up to the call of Analyzer.Process: the plugin is looked
\* up, dir is checked and the output directory is made.
prepare ==
    /\ cfgPhase = "ready"
    /\ runPhase = "start"
    /\ IF checkInputs(cfg, host) # ""
       THEN runPhase' = "error" /\ UNCHANGED <<output, errorOut>>
       ELSE \E mkdirAll \in BOOLEAN :
              IF ~mkdirAll
              THEN runPhase' = "error" /\ UNCHANGED <<output, errorOut>>
              ELSE /\ runPhase' = "prepared"
                   /\ output' = Debug(logger, Debug(logger,
                                    Info(logger, output, "output directory"),
                                    "doc0"), "doc0.1")
                   /\ errorOut' = IF cfg.strictMode
                                  THEN Warn(logger, errorOut, "[STRICT MODE] Enabled")
                                  ELSE errorOut
    /\ UNCHANGED <<host, events, logger, lastCall>>
    /\ UNCHANGED <<ppVars, genVars, pkgVars, modVars, keyVars, pathVars, routeVars, cfgVars, defVars, normVars>>

\* a.Process(e.cfg.Dir): the analysis returns, or ends the process.
Process ==
    /\ runPhase = "prepared"
    /\ events' = Append(events, "Process")
    /\ \E returns \in BOOLEAN :
         IF returns
         THEN /\ runPhase' = "processed"
              /\ output' = Debug(logger, Debug(logger, output, "doc0.2"), "doc0.3")
         ELSE runPhase' = "exited" /\ output' = output
    /\ UNCHANGED <<host, logger, errorOut, lastCall>>
    /\ UNCHANGED <<ppVars, genVars, pkgVars, modVars, keyVars, pathVars, routeVars, cfgVars, defVars, normVars>>

\* rawDoc.Specialize(): the normalization returns, or panics.
Specialize ==
    /\ runPhase = "processed"
    /\ events' = Append(events, "Specialize")
    /\ \E returns \in BOOLEAN :
         IF returns
         THEN runPhase' = "specialized" /\ output' = Debug(logger, output, "doc1")
         ELSE runPhase' = "panic" /\ output' = output
    /\ UNCHANGED <<host, logger, errorOut, lastCall>>
    /\ UNCHANGED <<ppVars, genVars, pkgVars, modVars, keyVars, pathVars, routeVars, cfgVars, defVars, normVars>>

\* The number of generators executed so far.
Executed == Cardinality({i \in DOMAIN events : events[i] = "Generator"})

\* json.MarshalIndent and os.WriteFile of openapi.json: an error of either
\* ends the run.
writeDoc ==
    /\ runPhase = "specialized"
    /\ \E written \in BOOLEAN :
         IF written
         THEN /\ events' = Append(events, "WriteFile")
              /\ runPhase' = IF host.generators = 0 THEN "done" ELSE "written"
         ELSE events' = events /\ runPhase' = "error"
    /\ UNCHANGED <<host, logVars>>
    /\ UNCHANGED <<ppVars, genVars, pkgVars, modVars, keyVars, pathVars, routeVars, cfgVars, defVars, normVars>>

\* One turn of the loop over e.cfg.Generators: the generator is executed,
\* and its error ends the run.
executeGenerator ==
    /\ runPhase = "written"
    /\ Executed < host.generators
    /\ events' = Append(events, "Generator")
    /\ \E ok \in BOOLEAN :
         runPhase' = IF ~ok THEN "error"
                     ELSE IF Executed + 1 = host.generators THEN "done"
                     ELSE "written"
    /\ UNCHANGED <<host, logVars>>
    /\ UNCHANGED <<ppVars, genVars, pkgVars, modVars, keyVars, pathVars, routeVars, cfgVars, defVars, normVars>>

RunNext ==
    \/ before
    \/ prepare
    \/ Process
    \/ Specialize
    \/ writeDoc
    \/ executeGenerator

\* The run as app.Action is called: the flags have been applied.
RunInit ==
    /\ \E f \in RunCommandLines :
         /\ flags = f
         /\ cfg = applyFlags(NewEntrypointCfg, f)
    /\ cfgFile = NoFile
    /\ cfgPhase = "parsed"
    /\ host \in Hosts
    /\ events = <<>>
    /\ runPhase = "start"
    /\ ParamIdle /\ GenIdle /\ PkgIdle /\ ModIdle /\ LogIdle /\ KeyIdle /\ PathIdle /\ RouteIdle /\ DefIdle /\ NormIdle

SpecRun == RunInit /\ [][RunNext]_vars

\* The configuration or the loading of the run is in error: the file cannot
\* be loaded, the plugin is unset or not registered, or dir is missing or is
\* not a directory.
ConfigError ==
    /\ cfgPhase # "parsed"
    /\ \/ cfgFile.present /\ ~cfgFile.loadable
       \/ cfg.plugin = ""
       \/ cfg.plugin \notin host.plugins
       \/ host.stat # "dir"

\* Whether an event e comes before position i of the events.
Before(e, i) == \E j \in 1..(i - 1) : events[j] = e

\* C17: a run whose plugin is unset or not registered, whose configuration
\* file cannot be loaded or whose dir is missing or is not a directory ends
\* in an error and never calls Analyzer.Process nor writes openapi.json;
\* openapi.json is written only after Process and Specialize both returned,
\* and a generator runs only after openapi.json was written.
C17_ErrorsAbortBeforeAnalysis ==
    /\ ConfigError =>
         /\ events = <<>>
         /\ cfgPhase = "failed" \/ runPhase \in {"start", "error"}
    /\ \A i \in DOMAIN events :
         /\ events[i] = "WriteFile" =>
              \E j \in 1..(i - 1) :
                 events[j] = "Specialize" /\ Before("Process", j)
         /\ events[i] = "Generator" => Before("WriteFile", i)

C17_Witness ==
    /\ ConfigError
    /\ cfgPhase = "ready"
    /\ host.stat = "file"
    /\ runPhase = "error"

ConfigKeys == {"plugin", "dir", "output", "depends", "strictMode", "logLevel"}

\* C4: a flag given on the command line overrides the value the configuration
\* file gives for the same key (plugin, dir, output, depends, strict,
\* log-level): once the configuration is ready, each given flag's value is
\* the effective one.
C4_FlagsOverrideFile ==
    cfgPhase = "ready" =>
        \A key \in ConfigKeys : flags[key].set => cfg[key] = flags[key].val

(***************************************************************************)
(* Analyzer.loadDefinitionsFromPkg: the definition index of one package.   *)
(***************************************************************************)
TypeSpec(name) == [kind |-> "type", name |-> name, names |-> <<>>]

\* A const group whose constants have the named primitive type `name`.
ConstDecl(name, names) == [kind |-> "const", name |-> name, names |-> names]

\* The type expressions a receiver can have.
Ident(name) == [kind |-> "Ident", name |-> name]

StarExpr(x) == [kind |-> "StarExpr", X |-> x]

IndexExpr(x) == [kind |-> "IndexExpr", X |-> x]

IndexListExpr(x) == [kind |-> "IndexListExpr", X |-> x]

ParenExpr(x) == [kind |-> "ParenExpr", X |-> x]

\* Recv of a function without receiver: NumFields() is 0.
NoRecv == [kind |-> "none"]

FuncDecl(name) == [kind |-> "func", name |-> name, names |-> <<>>, recv |-> NoRecv]

\* func (recv) name().
MethodDecl(recv, name) == [kind |-> "func", name |-> name, names |-> <<>>, recv |-> recv]

PkgPath == "p"

\* FuncDefinition.Key.
Key(f) ==
    LET free == PkgPath \o "." \o f.name
        t    == f.recv
    IN  IF t.kind = "none" THEN free
        ELSE IF t.kind = "Ident" THEN PkgPath \o "." \o t.name \o "." \o f.name
        ELSE IF t.kind = "StarExpr"
             THEN IF t.X.kind = "Ident"
                  THEN "*" \o PkgPath \o "." \o t.X.name \o "." \o f.name
                  ELSE IF t.X.kind = "IndexExpr"
                       THEN IF t.X.X.kind # "Ident" THEN ""
                            ELSE "*" \o PkgPath \o "." \o t.X.X.name \o "." \o f.name
                       ELSE free
        ELSE IF t.kind = "IndexExpr" THEN ""
        ELSE free

DeclPool ==
    { TypeSpec("A"), TypeSpec("B"),
      ConstDecl("A", <<"A1", "A2">>), ConstDecl("A", <<"A3">>), ConstDecl("B", <<"B1">>),
      FuncDecl("f") }

\* The packages that compile: no declaration twice, and the type of every
\* const group declared somewhere in the package.
Packages ==
    {ds \in SeqsUpTo(DeclPool, MaxDecls) :
        /\ \A i, j \in DOMAIN ds : i # j => ds[i] # ds[j]
        /\ \A i \in DOMAIN ds :
              ds[i].kind = "const" => \E j \in DOMAIN ds : ds[j] = TypeSpec(ds[i].name)}

NoDefinitions == [k \in {} |-> <<>>]

NewTypeDefinition == [kind |-> "type", Enums |-> <<>>]

NewFuncDefinition(decl) == [kind |-> "func", Enums |-> <<>>, Decl |-> decl]

\* Definitions.Set: the entry under the key is replaced; nothing is stored
\* under the empty key.
Set(defs, key, def) == IF key = "" THEN defs ELSE (key :> def) @@ defs

\* loadEnumDefinition, for a const group of the package's own type `name`:
\* every constant is skipped while the index holds no definition of the type.
loadEnumDefinition(defs, d) ==
    IF d.name \notin DOMAIN defs THEN defs
    ELSE [defs EXCEPT ![d.name].Enums = @ \o d.names]

Loading == defPhase = "loading"

NextDecl == decls[cursor + 1]

LoadFuncDecl ==
    /\ Loading
    /\ cursor < Len(decls)
    /\ NextDecl.kind = "func"
    /\ definitions' = Set(definitions, Key(NextDecl), NewFuncDefinition(NextDecl))
    /\ cursor' = cursor + 1
    /\ UNCHANGED <<decls, pass, defPhase>>
    /\ UNCHANGED <<ppVars, genVars, pkgVars, modVars, logVars, runVars, keyVars, pathVars, routeVars, cfgVars, normVars>>

LoadTypeSpec ==
    /\ Loading
    /\ cursor < Len(decls)
    /\ NextDecl.kind = "type"
    /\ definitions' = Set(definitions, NextDecl.name, NewTypeDefinition)
    /\ cursor' = cursor + 1
    /\ UNCHANGED <<decls, pass, defPhase>>
    /\ UNCHANGED <<ppVars, genVars, pkgVars, modVars, logVars, runVars, keyVars, pathVars, routeVars, cfgVars, normVars>>

LoadConstDecl ==
    /\ Loading
    /\ cursor < Len(decls)
    /\ NextDecl.kind = "const"
    /\ definitions' = loadEnumDefinition(definitions, NextDecl)
    /\ cursor' = cursor + 1
    /\ UNCHANGED <<decls, pass, defPhase>>
    /\ UNCHANGED <<ppVars, genVars, pkgVars, modVars, logVars, runVars, keyVars, pathVars, routeVars, cfgVars, normVars>>

\* Process calls loadDefinitionsFromPkg for each package of the group, each
\* call with a visited set of its own: a package imported by another one of
\* the group is inspected again, into the same index.
LoadAgain ==
    /\ Loading
    /\ cursor = Len(decls)
    /\ pass < MaxPasses
    /\ pass' = pass + 1
    /\ cursor' = 0
    /\ UNCHANGED <<decls, definitions, defPhase>>
    /\ UNCHANGED <<ppVars, genVars, pkgVars, modVars, logVars, runVars, keyVars, pathVars, routeVars, cfgVars, normVars>>

LoadDone ==
    /\ Loading
    /\ cursor = Len(decls)
    /\ defPhase' = "done"
    /\ UNCHANGED <<decls, cursor, pass, definitions>>
    /\ UNCHANGED <<ppVars, genVars, pkgVars, modVars, logVars, runVars, keyVars, pathVars, routeVars, cfgVars, normVars>>

DefNext ==
    \/ LoadFuncDecl
    \/ LoadTypeSpec
    \/ LoadConstDecl
    \/ LoadAgain
    \/ LoadDone

DefInit ==
    /\ decls \in Packages
    /\ cursor = 0
    /\ pass = 1
    /\ definitions = NoDefinitions
    /\ defPhase = "loading"
    /\ ParamIdle /\ GenIdle /\ PkgIdle /\ ModIdle /\ LogIdle /\ RunIdle /\ KeyIdle /\ PathIdle /\ RouteIdle /\ CfgIdle /\ NormIdle

SpecDefs == DefInit /\ [][DefNext]_vars

\* The receivers of the methods of a type T, generic or not.
Receivers ==
    { NoRecv, Ident("T"), StarExpr(Ident("T")),
      IndexExpr(Ident("T")), StarExpr(IndexExpr(Ident("T"))),
      IndexListExpr(Ident("T")), StarExpr(IndexListExpr(Ident("T"))),
      StarExpr(IndexExpr(ParenExpr(Ident("T")))) }

\* The function declarations of a package: no declaration twice.
FuncPackages ==
    {ds \in SeqsUpTo({MethodDecl(r, n) : r \in Receivers, n \in {"f", "g"}}, MaxDecls) :
        \A i, j \in DOMAIN ds : i # j => ds[i] # ds[j]}

FuncNext ==
    \/ LoadFuncDecl
    \/ LoadDone

FuncInit ==
    /\ decls \in FuncPackages
    /\ cursor = 0
    /\ pass = 1
    /\ definitions = NoDefinitions
    /\ defPhase = "loading"
    /\ ParamIdle /\ GenIdle /\ PkgIdle /\ ModIdle /\ LogIdle /\ RunIdle /\ KeyIdle /\ PathIdle /\ RouteIdle /\ CfgIdle /\ NormIdle

SpecFuncs == FuncInit /\ [][FuncNext]_vars

\* The receiver has type parameters.
Generic(t) ==
    \/ t.kind \in {"IndexExpr", "IndexListExpr"}
    \/ t.kind = "StarExpr" /\ t.X.kind \in {"IndexExpr", "IndexListExpr"}

\* C22: the key of a function is pkgPath.Receiver.Name for a value receiver,
\* the same after a '*' for a pointer receiver, pkgPath.Name without
\* receiver and the empty key for every generic receiver, value or pointer;
\* the index never holds a method of a generic receiver.
C22_KeyOfReceiver ==
    defPhase = "done" =>
    /\ \A i \in DOMAIN decls :
          LET f == decls[i]
          IN  /\ f.recv = NoRecv => Key(f) = PkgPath \o "." \o f.name
              /\ f.recv = Ident("T") => Key(f) = PkgPath \o ".T." \o f.name
              /\ f.recv = StarExpr(Ident("T")) => Key(f) = "*" \o PkgPath \o ".T." \o f.name
              /\ Generic(f.recv) => Key(f) = ""
    /\ \A k \in DOMAIN definitions :
          definitions[k].kind = "func" => ~Generic(definitions[k].Decl.recv)

\* C28: a function with a receiver is never indexed under the key
\* pkgPath.Name of the free function of its name.
C28_MethodNeverUnderFreeKey ==
    \A k \in DOMAIN definitions :
        (definitions[k].kind = "func" /\ definitions[k].Decl.recv # NoRecv) =>
            k # PkgPath \o "." \o definitions[k].Decl.name

\* The constants of type `name` in declaration order.
RECURSIVE ConstsOf(_, _)
ConstsOf(ds, name) ==
    IF ds = <<>> THEN <<>>
    ELSE (IF Head(ds).kind = "const" /\ Head(ds).name = name THEN Head(ds).names ELSE <<>>)
            \o ConstsOf(Tail(ds), name)

\* C9: once the definitions are loaded, the definition of every named
\* primitive type T holds one enum item for every constant of type T of the
\* package, exactly once and in declaration order, whether T is declared
\* before or after the const group.
C9_EnumItemsComplete ==
    defPhase = "done" =>
        \A i \in DOMAIN decls :
            decls[i].kind = "type" =>
                /\ decls[i].name \in DOMAIN definitions
                /\ definitions[decls[i].name].Enums = ConstsOf(decls, decls[i].name)

(***************************************************************************)
(* spec.Schema and spec.schemaNormalizer.  A reference is held as the key  *)
(* of the component it points to; the extended type info of a schema is    *)
(* held in its fields eti (the kind), idx (type-param), gtype and args     *)
(* (specific).                                                             *)
(***************************************************************************)
Nil == [nil |-> TRUE]

NoProps == [k \in {} |-> Nil]

NewSchema ==
    [ref |-> "", type |-> "", eti |-> "none", idx |-> 0, gtype |-> Nil, args |-> <<>>,
     items |-> Nil, addl |-> Nil, props |-> NoProps, key |-> "", sfg |-> FALSE]

RefComponentSchemas(key) == [NewSchema EXCEPT !.ref = key]

NewStringSchema == [NewSchema EXCEPT !.type = "string", !.key = "string"]

NewIntegerSchema == [NewSchema EXCEPT !.type = "integer", !.key = "integer"]

NewTypeParamSchema(index) ==
    [NewSchema EXCEPT !.type = "typeParam", !.eti = "param", !.idx = index]

NewArraySchema(item) ==
    [NewSchema EXCEPT !.type = "array", !.eti = "array", !.items = item]

NewObjectSchema(props) ==
    [NewSchema EXCEPT !.type = "object", !.eti = "object", !.props = props]

\* Schema.GetKey: the component key of a reference, the schema's own key otherwise.
GetKey(schema) == IF schema.ref # "" THEN schema.ref ELSE schema.key

RECURSIVE ArgKeys(_)
ArgKeys(args) ==
    IF Len(args) = 1 THEN GetKey(args[1])
    ELSE GetKey(args[1]) \o "," \o ArgKeys(Tail(args))

\* modelKey without the arguments.
modelKey_keyOnly(key, args) == key

\* schemaNormalizer.modelKey: key[arg1,arg2,...], or key with no arguments.
modelKey(key, args) ==
    IF Len(args) <= 0 THEN key ELSE key \o "[" \o ArgKeys(args) \o "]"

\* A usage of the generic gtype with the arguments args, as the schema builder
\* records it.
NewSpecificSchema(gtype, args) ==
    [NewSchema EXCEPT !.eti = "specific", !.gtype = gtype, !.args = args,
                      !.key = modelKey(GetKey(gtype), args)]

\* Unref: the component a reference points to, the schema itself otherwise.
Unref(cs, ref) == IF ref.ref # "" THEN cs[ref.ref] ELSE ref

\* An index expression args[index] panics when the index is not smaller than
\* the length of the slice.
indexOutOfRange(args, index) == index >= Len(args)

\* schemaNormalizer.mergeArgs: a type-param argument is replaced by the outer
\* argument at its index.
mergeArgs(args, args2) ==
    [i \in DOMAIN args |-> IF args[i].eti = "param" THEN args2[args[i].idx + 1] ELSE args[i]]

\* mergeArgs panics when a type-param argument has no outer argument.
mergeArgsPanics(args, args2) ==
    \E i \in DOMAIN args : args[i].eti = "param" /\ indexOutOfRange(args2, args[i].idx)

\* What a call of process leaves: the components, the schema it returns, and
\* how it ended: "ok" (returned), "panic" (a runtime panic unwinds the
\* normalizer) or "diverged" (the recursion went deeper than MaxRecursion).
Returned(cs, res) == [comps |-> cs, res |-> res, status |-> "ok"]

Unwound(cs, status) == [comps |-> cs, res |-> Nil, status |-> status]

\* The lookup of the mangled key in the components (the exists of process).
exists_never(cs, key) == FALSE

exists(cs, key) == key \in DOMAIN cs

\* schemaNormalizer.process.  The components are written as the code writes
\* them: the clone is stored under the mangled key before its children are
\* processed, and holds the processed children afterwards.  A type-param
\* schema has no children (NewTypeParamSchema), so the argument that replaces
\* it is returned as it is.  After a panic the document is never handed on,
\* so the children already stored into the clone are not recorded.
RECURSIVE process(_, _, _, _)
RECURSIVE processProperties(_, _, _, _, _)
processProperties(cs, props, names, args, depth) ==
    IF names = {} THEN [comps |-> cs, props |-> props, status |-> "ok"]
    ELSE LET name == CHOOSE n \in names : TRUE
             r    == process(cs, props[name], args, depth)
         IN  IF r.status # "ok" THEN [comps |-> r.comps, props |-> props, status |-> r.status]
             ELSE processProperties(r.comps, [props EXCEPT ![name] = r.res],
                                    names \ {name}, args, depth)

process(cs, ref, args, depth) ==
    IF depth > MaxRecursion THEN Unwound(cs, "diverged")
    ELSE
    LET schemaRef == Unref(cs, ref)
        clone     == [schemaRef EXCEPT !.sfg = TRUE]
        key       == modelKey(GetKey(ref), args)
        resRef    == RefComponentSchemas(key)
        byRef     == ref.ref # ""
    IN  IF byRef /\ exists(cs, key) THEN Returned(cs, resRef)
        ELSE
        LET schema == IF byRef
                      THEN [clone EXCEPT !.eti = "specific", !.idx = 0, !.gtype = ref, !.args = args]
                      ELSE clone
            cs1    == IF byRef THEN (key :> schema) @@ cs ELSE cs
        IN  IF schemaRef.eti = "specific"
            THEN IF mergeArgsPanics(schemaRef.args, args) THEN Unwound(cs1, "panic")
                 ELSE process(cs1, schemaRef.gtype, mergeArgs(schemaRef.args, args), depth + 1)
            ELSE IF schemaRef.eti = "param"
            THEN IF indexOutOfRange(args, schemaRef.idx) THEN Unwound(cs1, "panic")
                 ELSE IF args[schemaRef.idx + 1] = Nil THEN Returned(cs1, Nil)
                 ELSE Returned(cs1, IF byRef THEN resRef ELSE args[schemaRef.idx + 1])
            ELSE
            LET r1  == IF schema.items # Nil THEN process(cs1, schema.items, args, depth + 1)
                       ELSE Returned(cs1, Nil)
                r2  == IF schema.addl # Nil THEN process(r1.comps, schema.addl, args, depth + 1)
                       ELSE Returned(r1.comps, Nil)
                r3  == processProperties(r2.comps, schema.props, DOMAIN schema.props, args, depth + 1)
                res == [schema EXCEPT !.items = r1.res, !.addl = r2.res, !.props = r3.props]
            IN  IF r1.status # "ok" THEN Unwound(r1.comps, r1.status)
                ELSE IF r2.status # "ok" THEN Unwound(r2.comps, r2.status)
                ELSE IF r3.status # "ok" THEN Unwound(r3.comps, r3.status)
                ELSE IF byRef
                THEN Returned([r3.comps EXCEPT ![key] = res], resRef)
                ELSE Returned(r3.comps, res)

\* processSchemaRef with every schema left as it is.
processSchemaRef_unchanged(cs, ref) == Returned(cs, ref)

\* schemaNormalizer.processSchemaRef.
processSchemaRef(cs, ref) ==
    IF ref = Nil \/ ref.ref # "" \/ ref.eti # "specific" THEN Returned(cs, ref)
    ELSE process(cs, ref.gtype, ref.args, 1)

\* schemaNormalizer.processOperation: the response content, then the request
\* body; a panic in the first leaves the second as it was.
processOperation(cs, op) ==
    LET r1 == processSchemaRef(cs, op.response)
        r2 == processSchemaRef(r1.comps, op.requestBody)
    IN  IF r1.status # "ok" THEN [comps |-> r1.comps, op |-> op, status |-> r1.status]
        ELSE IF r2.status # "ok"
        THEN [comps |-> r2.comps, op |-> [op EXCEPT !.response = r1.res], status |-> r2.status]
        ELSE [comps |-> r2.comps, op |-> [response |-> r1.res, requestBody |-> r2.res],
              status |-> "ok"]

(***************************************************************************)
(* The documents handed to the normalizer.                                 *)
(***************************************************************************)
Goods == RefComponentSchemas("Goods")

\* type Goods struct{ Name string }
\* type Page[T any] struct{ Items []T; Total int }
\* type Node[T any] struct{ Val T; Next *Node[T] }
\* type Wrap[T any] struct{ Data Page[T]; Owner Goods }
\* type Pair[K, V any] struct{ Key K; Val V }
\* type Entry[K, V any] struct{ Val Page[V] }
\* type Tree[T any] struct{ Kids Forest[T] }
\* type Forest[T any] struct{ First *Tree[T] }
Templates ==
    ("Goods" :> [NewObjectSchema("name" :> NewStringSchema) EXCEPT !.key = "Goods"])
    @@ ("Page" :> [NewObjectSchema(("items" :> NewArraySchema(NewTypeParamSchema(0)))
                                   @@ ("total" :> NewIntegerSchema)) EXCEPT !.key = "Page"])
    @@ ("Node" :> [NewObjectSchema(("val" :> NewTypeParamSchema(0))
                                   @@ ("next" :> NewSpecificSchema(RefComponentSchemas("Node"),
                                                                  <<NewTypeParamSchema(0)>>)))
                      EXCEPT !.key = "Node"])
    @@ ("Wrap" :> [NewObjectSchema(("data" :> NewSpecificSchema(RefComponentSchemas("Page"),
                                                              <<NewTypeParamSchema(0)>>))
                                   @@ ("owner" :> Goods))
                      EXCEPT !.key = "Wrap"])
    @@ ("Pair" :> [NewObjectSchema(("key" :> NewTypeParamSchema(0))
                                   @@ ("val" :> NewTypeParamSchema(1)))
                      EXCEPT !.key = "Pair"])
    @@ ("Entry" :> [NewObjectSchema("val" :> NewSpecificSchema(RefComponentSchemas("Page"),
                                                             <<NewTypeParamSchema(1)>>))
                      EXCEPT !.key = "Entry"])
    @@ ("Tree" :> [NewObjectSchema("kids" :> NewSpecificSchema(RefComponentSchemas("Forest"),
                                                             <<NewTypeParamSchema(0)>>))
                      EXCEPT !.key = "Tree"])
    @@ ("Forest" :> [NewObjectSchema("first" :> NewSpecificSchema(RefComponentSchemas("Tree"),
                                                                <<NewTypeParamSchema(0)>>))
                      EXCEPT !.key = "Forest"])

\* type GoodsPage Page[Goods]: a component that is itself a usage of a generic.
Aliases ==
    "GoodsPage" :> [NewSpecificSchema(RefComponentSchemas("Page"), <<Goods>>) EXCEPT !.key = "GoodsPage"]

\* The schemas of request and response contents; the last two give a generic
\* of two parameters one argument.
Usages ==
    { Goods,
      NewSpecificSchema(RefComponentSchemas("Page"), <<Goods>>),
      NewSpecificSchema(RefComponentSchemas("Node"), <<Goods>>),
      NewSpecificSchema(RefComponentSchemas("Tree"), <<Goods>>),
      NewSpecificSchema(RefComponentSchemas("Wrap"), <<Goods>>),
      NewSpecificSchema(RefComponentSchemas("Page"),
                        <<NewSpecificSchema(RefComponentSchemas("Page"), <<Goods>>)>>),
      NewArraySchema(NewSpecificSchema(RefComponentSchemas("Page"), <<Goods>>)),
      NewSpecificSchema(RefComponentSchemas("Pair"), <<Goods, NewStringSchema>>),
      NewSpecificSchema(RefComponentSchemas("Pair"), <<Goods>>),
      NewSpecificSchema(RefComponentSchemas("Entry"), <<Goods>>) }

Operations == [response : Usages, requestBody : {Nil, NewSpecificSchema(RefComponentSchemas("Page"), <<Goods>>)}]

(***************************************************************************)
(* schemaNormalizer.normalize, step by step.  Go visits the keys a map had *)
(* when the loop began in any order, and may or may not visit the keys     *)
(* inserted meanwhile.  A key the loop body skips leaves the document as   *)
(* it is, so only the keys it acts on are steps.  A panic unwinds          *)
(* normalize: the phase "panic" (or "diverged") has no further step.       *)
(***************************************************************************)
Normalizing(phase) == normPhase = phase

\* The component loop acts on the schema: not a reference, marked specific.
Acts(schema) == schema.ref = "" /\ schema.eti = "specific"

NormalizeComponent ==
    /\ Normalizing("components")
    /\ \E k \in DOMAIN comps \ visited :
         /\ Acts(comps[k])
         /\ \E r \in {process(comps, comps[k].gtype, comps[k].args, 1)} :
                /\ comps' = IF r.status = "ok" THEN [r.comps EXCEPT ![k] = r.res] ELSE r.comps
                /\ normPhase' = IF r.status = "ok" THEN normPhase ELSE r.status
         /\ visited' = visited \cup {k}
    /\ UNCHANGED <<ops, initKeys, pathsLeft, normRun, firstRun, origDoc>>
    /\ UNCHANGED <<ppVars, genVars, pkgVars, modVars, logVars, runVars, keyVars, pathVars, routeVars, cfgVars, defVars>>

\* The component loop ends once every key the map had at its start is visited.
ComponentsDone ==
    /\ Normalizing("components")
    /\ \A k \in initKeys \ visited : ~Acts(comps[k])
    /\ normPhase' = "paths"
    /\ pathsLeft' = DOMAIN ops
    /\ UNCHANGED <<comps, ops, visited, initKeys, normRun, firstRun, origDoc>>
    /\ UNCHANGED <<ppVars, genVars, pkgVars, modVars, logVars, runVars, keyVars, pathVars, routeVars, cfgVars, defVars>>

\* processPathItem, on a path item with one operation.
NormalizePathItem ==
    /\ Normalizing("paths")
    /\ \E i \in pathsLeft :
         \E r \in {processOperation(comps, ops[i])} :
             /\ comps' = r.comps
             /\ ops' = [ops EXCEPT ![i] = r.op]
             /\ pathsLeft' = pathsLeft \ {i}
             /\ normPhase' = IF r.status = "ok" THEN normPhase ELSE r.status
    /\ UNCHANGED <<visited, initKeys, normRun, firstRun, origDoc>>
    /\ UNCHANGED <<ppVars, genVars, pkgVars, modVars, logVars, runVars, keyVars, pathVars, routeVars, cfgVars, defVars>>

NormalizeDone ==
    /\ Normalizing("paths")
    /\ pathsLeft = {}
    /\ normPhase' = "done"
    /\ UNCHANGED <<comps, ops, visited, initKeys, pathsLeft, normRun, firstRun, origDoc>>
    /\ UNCHANGED <<ppVars, genVars, pkgVars, modVars, logVars, runVars, keyVars, pathVars, routeVars, cfgVars, defVars>>

\* normalize called on the document it returned.
NormalizeAgain ==
    /\ Normalizing("done")
    /\ normRun = 1
    /\ normRun' = 2
    /\ firstRun' = [comps |-> comps, ops |-> ops]
    /\ normPhase' = "components"
    /\ visited' = {}
    /\ initKeys' = DOMAIN comps
    /\ UNCHANGED <<comps, ops, pathsLeft, origDoc>>
    /\ UNCHANGED <<ppVars, genVars, pkgVars, modVars, logVars, runVars, keyVars, pathVars, routeVars, cfgVars, defVars>>

NormNext ==
    \/ NormalizeComponent
    \/ ComponentsDone
    \/ NormalizePathItem
    \/ NormalizeDone
    \/ NormalizeAgain

Documents ==
    [comps : {Templates, Aliases @@ Templates},
     ops : SeqsUpTo(Operations, MaxOps) \ {<<>>}]

NormInit ==
    /\ origDoc \in Documents
    /\ comps = origDoc.comps
    /\ ops = origDoc.ops
    /\ visited = {}
    /\ initKeys = DOMAIN comps
    /\ pathsLeft = {}
    /\ normPhase = "components"
    /\ normRun = 1
    /\ firstRun = [comps |-> <<>>, ops |-> <<>>]
    /\ ParamIdle /\ GenIdle /\ PkgIdle /\ ModIdle /\ LogIdle /\ RunIdle /\ KeyIdle /\ PathIdle /\ RouteIdle /\ CfgIdle /\ DefIdle

SpecNorm == NormInit /\ [][NormNext]_vars

\* Whether the schema, or a schema among its items, additional properties
\* and properties, is marked specific or type-param.
RECURSIVE Marked(_)
Marked(schema) ==
    IF schema = Nil THEN FALSE
    ELSE \/ schema.eti \in {"specific", "param"}
         \/ Marked(schema.items)
         \/ Marked(schema.addl)
         \/ \E n \in DOMAIN schema.props : Marked(schema.props[n])

Contents(op) == {op.response, op.requestBody} \ {Nil}

C2_NormalizeIdempotent ==
    (normPhase = "done" /\ normRun = 2) =>
        /\ comps = firstRun.comps
        /\ ops = firstRun.ops

\* C11: a specialization error does not abort normalization: whatever
\* type-param index a schema asks for, normalize never ends in a panic (it
\* goes on with the rest of the document).
C11_SpecializationErrorContinues == normPhase # "panic"

\* The template with its type parameters replaced, as the specializer is to
\* build it: type-param(i) becomes args[i], a nested specific marker becomes
\* the reference to its own specialization under the merged arguments.
RECURSIVE Substituted(_, _)
Substituted(schema, args) ==
    IF schema = Nil THEN Nil
    ELSE IF schema.ref # "" THEN schema
    ELSE IF schema.eti = "param" THEN args[schema.idx + 1]
    ELSE IF schema.eti = "specific"
    THEN RefComponentSchemas(modelKey(GetKey(schema.gtype), mergeArgs(schema.args, args)))
    ELSE [schema EXCEPT !.items = Substituted(@, args),
                        !.addl = Substituted(@, args),
                        !.props = [n \in DOMAIN @ |-> Substituted(@[n], args)]]

\* The schema without the specialized-from-generic flags.
RECURSIVE Shape(_)
Shape(schema) ==
    IF schema = Nil THEN Nil
    ELSE [schema EXCEPT !.sfg = FALSE,
                        !.items = Shape(@),
                        !.addl = Shape(@),
                        !.props = [n \in DOMAIN @ |-> Shape(@[n])]]

\* The two schemas have the same type, items, additional properties and
\* properties.
SameContent(a, b) ==
    /\ a.ref = "" /\ b.ref = ""
    /\ a.type = b.type
    /\ Shape(a).items = Shape(b).items
    /\ Shape(a).addl = Shape(b).addl
    /\ Shape(a).props = Shape(b).props

ContentFields == {"response", "requestBody"}

\* C12: once normalize has returned, every request or response content that
\* was a usage specific(G, Args) is the reference to the component G[Args],
\* that component is the template G with every type-param(i) replaced by
\* Args[i] (nested specific markers specialized under the merged arguments),
\* and the template component G is as it was.
C12_SpecializationWritten ==
    (normPhase = "done" /\ normRun = 1) =>
        \A i \in DOMAIN ops : \A f \in ContentFields :
            LET usage == origDoc.ops[i][f]
            IN  (usage # Nil /\ usage.ref = "" /\ usage.eti = "specific") =>
                    LET G   == usage.gtype.ref
                        key == modelKey(G, usage.args)
                    IN  /\ ops[i][f] = RefComponentSchemas(key)
                        /\ key \in DOMAIN comps
                        /\ SameContent(comps[key], Substituted(origDoc.comps[G], usage.args))
                        /\ comps[G] = origDoc.comps[G]

\* C25: the outcome of normalize does not depend on the order of the map
\* iterations nor on whether the components inserted meanwhile are visited:
\* in particular no component ends up as a bare reference to its own key.
C25_NoSelfReference ==
    normPhase = "done" => \A k \in DOMAIN comps : comps[k].ref # k

\* Whether the schema holds a type parameter: it is a generic template.
RECURSIVE Parameterized(_)
Parameterized(schema) ==
    IF schema = Nil THEN FALSE
    ELSE \/ schema.eti = "param"
         \/ \E i \in DOMAIN schema.args : Parameterized(schema.args[i])
         \/ Parameterized(schema.items)
         \/ Parameterized(schema.addl)
         \/ \E n \in DOMAIN schema.props : Parameterized(schema.props[n])

\* C26: every component normalize adds, under a key K[args], is the copy of
\* a generic component K; no copy of a non-generic component is created.
C26_OnlyGenericsCopied ==
    normPhase = "done" =>
        \A k \in DOMAIN comps \ DOMAIN origDoc.comps :
            \E K \in DOMAIN origDoc.comps :
                /\ Parameterized(origDoc.comps[K])
                /\ \E args \in SeqsUpTo(Usages \cup {NewStringSchema, NewIntegerSchema}, MaxTypeArgs) :
                      args # <<>> /\ k = modelKey(K, args)

(***************************************************************************)
(* The mangled key of a generic usage, computed where the type is used     *)
(* (TypeDefinition.ModelKey) and by the normalizer (modelKey on the key of *)
(* the reference to the generic's component).                              *)
(***************************************************************************)
\* strings.ReplaceAll(s, old, new) for a one-character old.
ReplaceAll(chars, old, new) == [i \in DOMAIN chars |-> IF chars[i] = old THEN new ELSE chars[i]]

TypeDefinition(pkgPath, name) == [pkgPath |-> pkgPath, name |-> name]

\* TypeDefinition.ModelKey: the loop over typeArgs[1:].
RECURSIVE WriteArgs(_, _, _)
WriteArgs(sb, typeArgs, i) ==
    IF i > Len(typeArgs) THEN sb
    ELSE WriteArgs(sb \o "," \o GetKey(typeArgs[i]), typeArgs, i + 1)

ModelKey(t, typeArgs) ==
    LET sb == Str(ReplaceAll(t.pkgPath, "/", "_")) \o "." \o t.name
    IN  IF Len(typeArgs) > 0
        THEN WriteArgs(sb \o "[" \o GetKey(typeArgs[1]), typeArgs, 2) \o "]"
        ELSE sb

\* TypeDefinition.RefKey, held as the key of the component.
RefKey(t, typeArgs) == ModelKey(t, typeArgs)

\* Packages v and s/v, types Page and Pair.
GenericTypes ==
    {TypeDefinition(pkg, name) : pkg \in {<<"v">>, <<"s", "/", "v">>}, name \in {"Page", "Pair"}}

\* Type arguments: a reference, an inline schema of the same key, a basic type.
TypeArgs ==
    {Goods, [NewObjectSchema(NoProps) EXCEPT !.key = "Goods"], NewStringSchema}

GenericUsages == [type : GenericTypes, args : SeqsUpTo(TypeArgs, MaxTypeArgs)]

\* The schema builder computes the key of the next usage.
UsageSite ==
    /\ Len(siteKeys) < Len(usages)
    /\ LET u == usages[Len(siteKeys) + 1]
       IN  siteKeys' = Append(siteKeys, ModelKey(u.type, u.args))
    /\ UNCHANGED <<usages, normKeys>>
    /\ UNCHANGED <<ppVars, genVars, pkgVars, modVars, logVars, runVars, pathVars, routeVars, cfgVars, defVars, normVars>>

\* The normalizer computes the key of the next usage from the reference to
\* the generic's component.
NormalizerKey ==
    /\ Len(siteKeys) = Len(usages)
    /\ Len(normKeys) < Len(usages)
    /\ LET u   == usages[Len(normKeys) + 1]
           ref == RefComponentSchemas(RefKey(u.type, <<>>))
       IN  normKeys' = Append(normKeys, modelKey(GetKey(ref), u.args))
    /\ UNCHANGED <<usages, siteKeys>>
    /\ UNCHANGED <<ppVars, genVars, pkgVars, modVars, logVars, runVars, pathVars, routeVars, cfgVars, defVars, normVars>>

KeyNext == UsageSite \/ NormalizerKey

KeyInit ==
    /\ usages \in [1..2 -> GenericUsages]
    /\ siteKeys = <<>>
    /\ normKeys = <<>>
    /\ ParamIdle /\ GenIdle /\ PkgIdle /\ ModIdle /\ LogIdle /\ RunIdle /\ PathIdle /\ RouteIdle /\ CfgIdle /\ DefIdle /\ NormIdle

SpecKey == KeyInit /\ [][KeyNext]_vars

\* The keys of the arguments, in order.
KeysOf(args) == [i \in DOMAIN args |-> GetKey(args[i])]

PathInputs == SeqsUpTo(PathChars, MaxPathLen)

NormalizePathCall ==
    /\ \E p \in PathInputs :
         /\ npIn' = p
         /\ npOut' = normalizePath(p)
    /\ UNCHANGED <<ppVars, genVars, pkgVars, modVars, logVars, runVars, keyVars, routeVars, cfgVars, defVars, normVars>>

PathInit == ParamIdle /\ GenIdle /\ PkgIdle /\ ModIdle /\ LogIdle /\ RunIdle /\ KeyIdle /\ PathIdle /\ RouteIdle /\ CfgIdle /\ DefIdle /\ NormIdle

PathNext == NormalizePathCall

SpecPath == PathInit /\ [][PathNext]_vars

\* Whether a parameter segment introduced by ':' or by '*' starts at i.
ParamMarkerAt(p, i) ==
    /\ i <= Len(p)
    /\ p[i] \in {":", "*"}
    /\ MatchEnd(p, i + 1) >= i + 1

\* The template with every ':name' and every '*name' written as '{name}'.
RECURSIVE BracedTemplate(_, _)
BracedTemplate(p, i) ==
    IF i > Len(p) THEN <<>>
    ELSE IF ParamMarkerAt(p, i)
         THEN LET j == MatchEnd(p, i + 1)
              IN  <<"{">> \o SubSeq(p, i + 1, j) \o <<"}">> \o BracedTemplate(p, j + 1)
         ELSE <<p[i]>> \o BracedTemplate(p, i + 1)

\* C7: normalizePath rewrites both ':name' and '*name' to '{name}' and leaves
\* every other character of the template unchanged.
C7_ColonAndStarRewritten == npOut = BracedTemplate(npIn, 1)

\* The part of C7 the code does implement: a template without '*' comes out
\* with every ':name' braced and the rest unchanged.
C7_ColonRewritten ==
    (\A i \in DOMAIN npIn : npIn[i] # "*") => npOut = BracedTemplate(npIn, 1)

(***************************************************************************)
(* Termination of the normalizer.                                          *)
(***************************************************************************)
\* How far normalize has come: the run, the loop it is in and the keys or
\* path items that loop is done with.  A run that has ended ranks above
\* every step of its loops.
Rank ==
    normRun * 1000
    + CASE normPhase = "components" -> 100 + Cardinality(visited)
        [] normPhase = "paths" -> 200 + MaxOps - Cardinality(pathsLeft)
        [] OTHER -> 300

\* C20: normalize comes to an end on every document, the documents whose
\* generics refer to themselves (Node) or to each other (Tree, Forest)
\* included: the recursion of process never goes on without bound, because
\* a usage whose mangled key is already among the components is answered
\* with the reference to that key, and every step of the loops of normalize
\* moves on in a bounded rank.
C20_NormalizeTerminates ==
    [][/\ normPhase' # "diverged"
       /\ Rank' > Rank
       /\ Rank' <= 3000]_vars

\* normalize has returned for a usage of the self-referential Node and of the
\* mutually recursive Tree and Forest, with the inner usages answered by
\* references to the keys in progress.
C20_Witness ==
    /\ normPhase = "done"
    /\ {"Node[Goods]", "Tree[Goods]", "Forest[Goods]"} \subseteq DOMAIN comps
    /\ comps["Node[Goods]"].props["next"] = RefComponentSchemas("Node[Goods]")
    /\ comps["Forest[Goods]"].props["first"] = RefComponentSchemas("Tree[Goods]")

(***************************************************************************)
(* ParamParser: the OpenAPI type of a struct field.                        *)
(***************************************************************************)
\* go/types: the kinds of basic types.
IntegerKinds == {"Int", "Int8", "Int16", "Int32", "Int64", "Uint", "Uint8", "Uint16", "Uint32",
                 "Uint64", "Uintptr"}

NumberKinds == {"Float32", "Float64", "Complex64", "Complex128"}

BasicKinds == IntegerKinds \cup NumberKinds \cup {"Bool", "String", "UnsafePointer"}

Basic(kind) == [class |-> "Basic", kind |-> kind]

Named(underlying) == [class |-> "Named", underlying |-> underlying]

StructType == [class |-> "Struct"]

NilType == [class |-> "nil"]

\* The names of the predeclared types.
Predeclared ==
    {"uint", "int", "uint8", "int8", "uint16", "int16", "uint32", "int32", "uint64", "int64",
     "byte", "rune", "float32", "float64", "bool", "string", "uintptr", "complex128"}

\* The types the package declares: type ID int64, type Price float64, ...
Declared ==
    ("ID" :> Named(Basic("Int64"))) @@ ("Count" :> Named(Basic("Uint"))) @@
    ("Price" :> Named(Basic("Float64"))) @@ ("Flag" :> Named(Basic("Bool"))) @@
    ("Title" :> Named(Basic("String"))) @@ ("Goods" :> Named(StructType))

\* The basic type a predeclared name denotes.
KindOf(name) ==
    CASE name = "uint" -> "Uint" [] name = "int" -> "Int" [] name = "uint8" -> "Uint8"
      [] name = "int8" -> "Int8" [] name = "uint16" -> "Uint16" [] name = "int16" -> "Int16"
      [] name = "uint32" -> "Uint32" [] name = "int32" -> "Int32" [] name = "uint64" -> "Uint64"
      [] name = "int64" -> "Int64" [] name = "byte" -> "Uint8" [] name = "rune" -> "Int32"
      [] name = "float32" -> "Float32" [] name = "float64" -> "Float64" [] name = "bool" -> "Bool"
      [] name = "string" -> "String" [] name = "uintptr" -> "Uintptr"
      [] name = "complex128" -> "Complex128"

\* TypesInfo.TypeOf of an identifier: nil for one the type checker does not
\* know.
TypeOf(name) ==
    IF name \in DOMAIN Declared THEN Declared[name]
    ELSE IF name \in Predeclared THEN Basic(KindOf(name))
    ELSE NilType

\* ParamParser.basicType.
basicType(name) ==
    IF name \in {"uint", "int", "uint8", "int8", "uint16", "int16", "uint32", "int32", "uint64",
                 "int64", "byte", "rune"} THEN "integer"
    ELSE IF name \in {"float32", "float64"} THEN "number"
    ELSE IF name = "bool" THEN "boolean"
    ELSE IF name = "string" THEN "string"
    ELSE ""

\* ParamParser.parseTypeOfBasicType: type and format.
parseTypeOfBasicType(t) ==
    IF t.kind = "Bool" THEN <<"boolean", "">>
    ELSE IF t.kind \in IntegerKinds THEN <<"integer", "">>
    ELSE IF t.kind \in NumberKinds THEN <<"number", "">>
    ELSE IF t.kind = "String" THEN <<"string", "">>
    ELSE <<"", "">>

\* ParamParser.parseTypeOfType: the result of the call on the underlying
\* type of a named type is dropped, and the function goes on to its last
\* return.
parseTypeOfType(t) ==
    IF t.class = "Basic" THEN parseTypeOfBasicType(t)
    ELSE <<"", "">>

\* ParamParser.typeOfIdent.
typeOfIdent(ident) ==
    IF basicType(ident.name) # "" THEN <<basicType(ident.name), "">>
    ELSE IF TypeOf(ident.name) = NilType THEN <<"", "">>
    ELSE parseTypeOfType(TypeOf(ident.name))

SelectorExpr(sel) == [kind |-> "SelectorExpr", Sel |-> sel]

ArrayType(elt) == [kind |-> "ArrayType", Elt |-> elt]

MapType == [kind |-> "MapType"]

\* The schema of a parameter: type, format and, for an array, the items.
ParamSchema(type, format) == [type |-> type, format |-> format, items |-> <<>>]

\* ParamParser.typeOf: the schema of the parameter it returns.
RECURSIVE typeOf(_)
typeOf(t) ==
    IF t.kind = "Ident" THEN ParamSchema(typeOfIdent(t)[1], typeOfIdent(t)[2])
    ELSE IF t.kind = "SelectorExpr" THEN typeOf(t.Sel)
    ELSE IF t.kind = "ArrayType" THEN [ParamSchema("array", "") EXCEPT !.items = <<typeOf(t.Elt)>>]
    ELSE IF t.kind = "StarExpr" THEN typeOf(t.X)
    ELSE ParamSchema("string", "")

\* The type expressions of fields: a type name under at most n pointers,
\* arrays and package qualifiers, or a map.
RECURSIVE FieldTypes(_)
FieldTypes(n) ==
    IF n = 0 THEN {Ident(name) : name \in Predeclared \cup DOMAIN Declared \cup {"T"}} \cup {MapType}
    ELSE LET inner == FieldTypes(n - 1)
         IN  inner \cup {StarExpr(t) : t \in inner} \cup {ArrayType(t) : t \in inner}
                   \cup {SelectorExpr(t) : t \in {u \in inner : u.kind = "Ident"}}

\* ParamParser.parseField, as far as the schema goes.
parseField ==
    /\ ppPhase = "field"
    /\ paramOut' = typeOf(fieldExpr)
    /\ ppPhase' = "parsed"
    /\ UNCHANGED fieldExpr
    /\ UNCHANGED <<genVars, pkgVars, modVars, logVars, runVars, keyVars, pathVars, routeVars, cfgVars, defVars, normVars>>

ParamNext == parseField

ParamInit ==
    /\ fieldExpr \in FieldTypes(MaxWraps)
    /\ paramOut = ParamSchema("", "")
    /\ ppPhase = "field"
    /\ GenIdle /\ PkgIdle /\ ModIdle /\ LogIdle /\ RunIdle /\ KeyIdle /\ PathIdle /\ RouteIdle /\ CfgIdle /\ DefIdle /\ NormIdle

SpecParam == ParamInit /\ [][ParamNext]_vars

\* The type name under the pointers and qualifiers of a field type, or the
\* expression itself.
RECURSIVE TypeName(_)
TypeName(t) ==
    IF t.kind = "StarExpr" THEN TypeName(t.X)
    ELSE IF t.kind = "SelectorExpr" THEN TypeName(t.Sel)
    ELSE t

\* C30: a field whose type is a named type with a basic underlying type gets
\* the OpenAPI type of a field declared with that basic type: integer for
\* the integer kinds, number for the float kinds, boolean for bool and
\* string for string.
C30_NamedLikeBasic ==
    (/\ ppPhase = "parsed"
     /\ TypeName(fieldExpr).kind = "Ident"
     /\ TypeName(fieldExpr).name \in DOMAIN Declared
     /\ Declared[TypeName(fieldExpr).name].underlying.class = "Basic") =>
        paramOut.type = parseTypeOfBasicType(Declared[TypeName(fieldExpr).name].underlying)[1]

(***************************************************************************)
(* generatorExecutor.generate: the files a generator prints are written.   *)
(***************************************************************************)
FileNames == {"index.ts", "types.ts", "api/index.ts"}

\* What the host answers to MkdirAll, OpenFile and WriteString.
HostAnswers == {"mkdir error", "open error", "write error", "ok"}

\* One turn of the loop over the result of Print. The handle of the turn is
\* the number of the item.
generate ==
    /\ genPhase = "writing"
    /\ genItems # <<>>
    /\ \E answer \in HostAnswers :
         LET item == Head(genItems)
             file == [name |-> item, handle |-> Len(wroteFiles) + 1]
         IN  IF answer \in {"mkdir error", "open error"}
             THEN /\ genPhase' = "error"
                  /\ UNCHANGED <<genItems, openFiles, wroteFiles>>
             ELSE IF answer = "write error"
             THEN /\ openFiles' = openFiles \cup {file}
                  /\ genPhase' = "error"
                  /\ UNCHANGED <<genItems, wroteFiles>>
             ELSE /\ openFiles' = (openFiles \cup {file}) \ {file}
                  /\ wroteFiles' = Append(wroteFiles, item)
                  /\ genItems' = Tail(genItems)
                  /\ genPhase' = genPhase
    /\ UNCHANGED <<ppVars, pkgVars, modVars, logVars, runVars, keyVars, pathVars, routeVars, cfgVars, defVars, normVars>>

\* return nil after the loop.
generateReturn ==
    /\ genPhase = "writing"
    /\ genItems = <<>>
    /\ genPhase' = "returned"
    /\ UNCHANGED <<genItems, openFiles, wroteFiles>>
    /\ UNCHANGED <<ppVars, pkgVars, modVars, logVars, runVars, keyVars, pathVars, routeVars, cfgVars, defVars, normVars>>

GenNext ==
    \/ generate
    \/ generateReturn

GenInit ==
    /\ genItems \in SeqsUpTo(FileNames, MaxFiles)
    /\ openFiles = {}
    /\ wroteFiles = <<>>
    /\ genPhase = "writing"
    /\ ParamIdle /\ PkgIdle /\ ModIdle /\ LogIdle /\ RunIdle /\ KeyIdle /\ PathIdle /\ RouteIdle /\ CfgIdle /\ DefIdle /\ NormIdle

SpecGen == GenInit /\ [][GenNext]_vars

\* C24: when generate returns, with nil or with an error, no file it opened
\* is still open.
C24_HandlesClosed ==
    genPhase \in {"returned", "error"} => openFiles = {}

(***************************************************************************)
(* Analyzer.loadDefinitionsFromPkg: which packages of the import graph     *)
(* have their definitions registered.                                      *)
(***************************************************************************)
\* packages.Module: nil for a package of the standard library.
NoModule == [Path |-> <<>>, Dir |-> <<>>]

Module(path, dir) == [Path |-> path, Dir |-> dir]

AppModule == Module(<<"app">>, <<"/", "app">>)

DepModule == Module(<<"dep">>, <<"/", "mod", "/", "dep">>)

OtherModule == Module(<<"other">>, <<"/", "mod", "/", "other">>)

\* The packages of the program: path and module of each.
PkgModules ==
    (<<"app">> :> AppModule) @@
    (<<"app", "/", "util">> :> AppModule) @@
    (<<"dep", "/", "x">> :> DepModule) @@
    (<<"other", "/", "z">> :> OtherModule) @@
    (<<"std", "/", "json">> :> NoModule)

MainPkg == <<"app">>

PkgPaths == DOMAIN PkgModules

\* The entries a depends list can hold: module paths and package paths.
DependsPool == {<<"dep">>, <<"dep", "/", "x">>, <<"other">>, <<"std">>, <<"std", "/", "json">>}

\* strings.HasPrefix.
HasPrefix(str, prefix) ==
    Len(prefix) <= Len(str) /\ SubSeq(str, 1, Len(prefix)) = prefix

\* The condition under which the callback of loadDefinitionsFromPkg goes on
\* to the files of the package.
Loads(pkgPath, depends, moduleDir) ==
    LET mod == PkgModules[pkgPath]
    IN  IF mod = NoModule
        THEN \E depend \in depends : HasPrefix(pkgPath, depend)
        ELSE ~(mod.Dir # moduleDir /\ mod.Path \notin depends)

\* One call of the callback InspectPackage hands a package to, and what
\* InspectPackage does with its answer: the imports of a package are walked
\* when the callback returns true; whether they are walked after false is
\* world.descends.
InspectPackage ==
    /\ walkPhase = "walking"
    /\ pending # <<>>
    /\ LET pkg  == Head(pending)
           rest == Tail(pending)
           imps == world.imports[pkg]
       IN  IF pkg \in seenPkgs
           THEN /\ pending' = (IF world.descends THEN imps \o rest ELSE rest)
                /\ UNCHANGED <<seenPkgs, registered>>
           ELSE /\ seenPkgs' = seenPkgs \cup {pkg}
                /\ IF Loads(pkg, world.depends, PkgModules[MainPkg].Dir)
                   THEN /\ registered' = registered \cup {pkg}
                        /\ pending' = imps \o rest
                   ELSE /\ registered' = registered
                        /\ pending' = (IF world.descends THEN imps \o rest ELSE rest)
    /\ UNCHANGED <<world, walkPhase>>
    /\ UNCHANGED <<ppVars, genVars, modVars, logVars, runVars, keyVars, pathVars, routeVars, cfgVars, defVars, normVars>>

InspectDone ==
    /\ walkPhase = "walking"
    /\ pending = <<>>
    /\ walkPhase' = "done"
    /\ UNCHANGED <<world, pending, seenPkgs, registered>>
    /\ UNCHANGED <<ppVars, genVars, modVars, logVars, runVars, keyVars, pathVars, routeVars, cfgVars, defVars, normVars>>

PkgNext ==
    \/ InspectPackage
    \/ InspectDone

\* The import graphs: the main package imports any of the others, and the
\* packages outside the owned module import packages outside it (imports
\* have no cycles).
ImportGraphs ==
    {[p \in PkgPaths |->
        IF p = MainPkg THEN a
        ELSE IF p = <<"other", "/", "z">> THEN b
        ELSE IF p = <<"app", "/", "util">> THEN c
        ELSE <<>>] :
      a \in {<<>>, <<<<"app", "/", "util">>>>, <<<<"other", "/", "z">>>>, <<<<"dep", "/", "x">>>>,
             <<<<"std", "/", "json">>>>, <<<<"app", "/", "util">>, <<"other", "/", "z">>>>,
             <<<<"dep", "/", "x">>, <<"std", "/", "json">>, <<"other", "/", "z">>>>},
      b \in {<<>>, <<<<"dep", "/", "x">>>>, <<<<"std", "/", "json">>>>,
             <<<<"dep", "/", "x">>, <<"std", "/", "json">>>>},
      c \in {<<>>, <<<<"std", "/", "json">>>>, <<<<"dep", "/", "x">>>>}}

PkgInit ==
    /\ world \in [depends : {d \in SUBSET DependsPool : Cardinality(d) <= MaxDepends},
                  imports : ImportGraphs,
                  descends : BOOLEAN]
    /\ pending = <<MainPkg>>
    /\ seenPkgs = {}
    /\ registered = {}
    /\ walkPhase = "walking"
    /\ ParamIdle /\ GenIdle /\ ModIdle /\ LogIdle /\ RunIdle /\ KeyIdle /\ PathIdle /\ RouteIdle /\ CfgIdle /\ DefIdle /\ NormIdle

SpecPkg == PkgInit /\ [][PkgNext]_vars

\* The packages reachable by imports from the packages of ps.
RECURSIVE Reachable(_, _)
Reachable(ps, n) ==
    IF n = 0 THEN ps
    ELSE Reachable(ps \cup UNION {Range(world.imports[p]) : p \in ps}, n - 1)

\* The package belongs to the owned module, or its module path is listed in
\* depends, or its path has a depends entry as prefix.
Wanted(pkgPath) ==
    \/ PkgModules[pkgPath].Dir = PkgModules[MainPkg].Dir
    \/ PkgModules[pkgPath] # NoModule /\ PkgModules[pkgPath].Path \in world.depends
    \/ \E depend \in world.depends : HasPrefix(pkgPath, depend)

\* C23: once the walk is over, a package reachable by imports from the
\* loaded package has its definitions registered exactly when it belongs to
\* the owned module, or its module path is in depends, or its path has a
\* depends entry as prefix.
C23_RegisteredExactlyWanted ==
    walkPhase = "done" =>
        \A p \in Reachable({MainPkg}, Cardinality(PkgPaths)) :
            p \in registered <=> Wanted(p)

(***************************************************************************)
(* Analyzer.lookupGoModFile: the walk from a directory to its go.mod.      *)
(***************************************************************************)
\* The last index of p that holds a separator, 0 if none.
RECURSIVE LastSeparator(_, _)
LastSeparator(p, i) ==
    IF i = 0 THEN 0 ELSE IF p[i] = "/" THEN i ELSE LastSeparator(p, i - 1)

\* filepath.Split: the path up to and including its last separator, and the
\* rest.
filepathSplit(p) ==
    LET i == LastSeparator(p, Len(p))
    IN  [dir |-> SubSeq(p, 1, i), file |-> SubSeq(p, i + 1, Len(p))]

\* strings.TrimSuffix(p, "/").
TrimSeparator(p) ==
    IF p # <<>> /\ p[Len(p)] = "/" THEN SubSeq(p, 1, Len(p) - 1) ELSE p

GoMod == <<"go.mod">>

\* filepath.Join(pkgPath, "go.mod").
goModOf(pkgPath) == pathJoin(<<pkgPath, GoMod>>)

\* os.Stat of a file name succeeds when a directory that holds a go.mod gives
\* that name.
Stat(mods, fileName) == \E d \in mods : goModOf(d) = fileName

NoModFile == [dir |-> <<>>, fileName |-> <<>>]

\* The directory n names below the root, and the same below the working
\* directory.
RECURSIVE Below(_, _)
Below(base, n) == IF n = 0 THEN base ELSE Below(base, n - 1) \o <<"/", "a">>

AbsDirs == {<<"/">>} \cup {Tail(Below(<<"/">>, n)) : n \in 1..MaxDirs}

RelDirs == {<<".">>} \cup {SubSeq(Below(<<".">>, n), 3, 2 * n + 1) : n \in 1..(MaxDirs - 1)}

\* The dir argument: a directory, absolute or relative, as typed or with a
\* separator at its end.
LookupArgs == AbsDirs \cup RelDirs \cup {d \o <<"/">> : d \in AbsDirs \ {<<"/">>}}

\* One turn of the loop of lookupGoModFile, and the return that follows the
\* loop when the turn breaks out of it.
lookupGoModFile ==
    /\ lookPhase = "loop"
    /\ LET fileName == goModOf(lookPath)
           split    == filepathSplit(lookPath)
       IN  IF Stat(goMods, fileName)
           THEN /\ lookOut' = [dir |-> TrimSeparator(lookPath), fileName |-> fileName]
                /\ lookPhase' = "returned"
                /\ lookPath' = lookPath
           ELSE /\ lookPath' = split.dir
                /\ lookOut' = NoModFile
                /\ lookPhase' = IF split.file = <<>> THEN "returned" ELSE "loop"
    /\ UNCHANGED <<goMods, lookArg>>
    /\ UNCHANGED <<ppVars, genVars, pkgVars, logVars, runVars, keyVars, pathVars, routeVars, cfgVars, defVars, normVars>>

ModNext == lookupGoModFile

ModInit ==
    /\ goMods \in SUBSET (AbsDirs \cup RelDirs)
    /\ lookArg \in LookupArgs
    /\ lookPath = lookArg
    /\ lookOut = NoModFile
    /\ lookPhase = "loop"
    /\ ParamIdle /\ GenIdle /\ PkgIdle /\ LogIdle /\ RunIdle /\ KeyIdle /\ PathIdle /\ RouteIdle /\ CfgIdle /\ DefIdle /\ NormIdle

SpecMod == ModInit /\ [][ModNext]_vars

\* The directories at or above an absolute directory: the directory and
\* every prefix of it that ends before a separator, the root last.
Ancestors(dir) ==
    {pathClean(dir)} \cup {pathClean(SubSeq(dir, 1, i)) : i \in {j \in DOMAIN dir : dir[j] = "/"}}

\* The nearest of them that holds a go.mod (the longest one), if any does.
Nearest(mods, dir) ==
    LET found == Ancestors(dir) \cap mods
    IN  IF found = {} THEN <<>>
        ELSE CHOOSE d \in found : \A e \in found : Len(e) <= Len(d)

\* C21: for an absolute dir, lookupGoModFile returns the nearest directory
\* at or above dir that holds a go.mod -- dir, its parent, its grandparent
\* and so on up to the root -- and reports not-found only when none does.
C21_NearestGoMod ==
    (lookPhase = "returned" /\ lookArg \in AbsDirs) =>
        lookOut.fileName = (IF Nearest(goMods, lookArg) = <<>> THEN <<>>
                            ELSE goModOf(Nearest(goMods, lookArg)))

(***************************************************************************)
(* The scopes of route-group bindings.                                     *)
(***************************************************************************)
\* The scopes once the innermost block has ended.
Ended(sc) == SubSeq(sc, 1, Len(sc) - 1)

\* The scopes inside a block that starts in the innermost scope.
Nested(sc) == Append(sc, Frame("block", EmptyEnv))

\* The scopes that bind a name.
Binding(sc, name) == {i \in DOMAIN sc : name \in DOMAIN sc[i].env}

\* C19: in a block, x := recv.Group(lit) binds x for the block and the blocks
\* nested in it, and neither after the block has ended nor in a sibling
\* block; x = recv.Group(lit) updates the binding of the enclosing scope that
\* owns x, which is what is seen after the block ends, and binds x in the
\* innermost scope when no scope owns it; a lookup returns the innermost
\* binding in sight.
C19_ScopeChain ==
    (Analysing /\ Top.kind = "block") =>
        /\ \A x \in GroupIdents, recv \in Idents, lit \in srcTree.lits :
             LET rg    == groupOf(scopes, recv, BasicLit(lit))
                 owner == Resolve(scopes, x, Len(scopes))
                 def   == assignStmt(scopes, x, ":=", recv, BasicLit(lit))
                 asg   == assignStmt(scopes, x, "=", recv, BasicLit(lit))
             IN  /\ Lookup(def, x) = rg
                 /\ Lookup(Nested(def), x) = rg
                 /\ Lookup(Ended(def), x) = Lookup(Ended(scopes), x)
                 /\ Lookup(Nested(Ended(def)), x) = Lookup(Ended(scopes), x)
                 /\ owner # 0 =>
                      /\ asg[owner].env[x] = rg
                      /\ \A i \in DOMAIN scopes \ {owner} : asg[i] = scopes[i]
                      /\ owner < Len(scopes) => Lookup(Ended(asg), x) = rg
                 /\ owner = 0 =>
                      /\ Binding(asg, x) = {Len(scopes)}
                      /\ Lookup(asg, x) = rg
                      /\ Ended(asg) = Ended(scopes)
        /\ \A y \in Idents :
             Lookup(scopes, y) =
                 IF Binding(scopes, y) = {} THEN NoGroup
                 ELSE scopes[CHOOSE i \in Binding(scopes, y) :
                                 \A j \in Binding(scopes, y) : j <= i].env[y]

C19_Witness ==
    /\ Analysing
    /\ Len(scopes) = 5
    /\ Top.kind = "block"
    /\ Binding(scopes, "g") = {4}
    /\ Binding(scopes, "v") = {5}
    /\ scopes[4].env["g"].prefix # scopes[5].env["v"].prefix

(***************************************************************************)
(* The global logger and the calls made on it.                             *)
(***************************************************************************)
Messages == {"unknown type"}

\* SetGlobalLogLevel.
SetGlobalLogLevel ==
    /\ \E level \in LogLevels : logger' = [logger EXCEPT !.level = level]
    /\ lastCall' = "SetLevel"
    /\ UNCHANGED <<output, errorOut>>
    /\ UNCHANGED <<ppVars, genVars, pkgVars, modVars, runVars, keyVars, pathVars, routeVars, cfgVars, defVars, normVars>>

\* SetGlobalLogStrictMode.
SetGlobalLogStrictMode ==
    /\ \E strict \in BOOLEAN : logger' = [logger EXCEPT !.strictMode = strict]
    /\ lastCall' = "SetStrictMode"
    /\ UNCHANGED <<output, errorOut>>
    /\ UNCHANGED <<ppVars, genVars, pkgVars, modVars, runVars, keyVars, pathVars, routeVars, cfgVars, defVars, normVars>>

\* Room for one more line in each output.
Room == Len(output) < MaxLines /\ Len(errorOut) < MaxLines

LogError ==
    /\ Room
    /\ \E message \in Messages : errorOut' = Error(logger, errorOut, message)
    /\ lastCall' = "Error"
    /\ UNCHANGED <<logger, output>>
    /\ UNCHANGED <<ppVars, genVars, pkgVars, modVars, runVars, keyVars, pathVars, routeVars, cfgVars, defVars, normVars>>

LogWarn ==
    /\ Room
    /\ \E message \in Messages : errorOut' = Warn(logger, errorOut, message)
    /\ lastCall' = "Warn"
    /\ UNCHANGED <<logger, output>>
    /\ UNCHANGED <<ppVars, genVars, pkgVars, modVars, runVars, keyVars, pathVars, routeVars, cfgVars, defVars, normVars>>

LogInfo ==
    /\ Room
    /\ \E message \in Messages : output' = Info(logger, output, message)
    /\ lastCall' = "Info"
    /\ UNCHANGED <<logger, errorOut>>
    /\ UNCHANGED <<ppVars, genVars, pkgVars, modVars, runVars, keyVars, pathVars, routeVars, cfgVars, defVars, normVars>>

LogDebug ==
    /\ Room
    /\ \E message \in Messages : output' = Debug(logger, output, message)
    /\ lastCall' = "Debug"
    /\ UNCHANGED <<logger, errorOut>>
    /\ UNCHANGED <<ppVars, genVars, pkgVars, modVars, runVars, keyVars, pathVars, routeVars, cfgVars, defVars, normVars>>

LogStrictError ==
    /\ Room
    /\ \E message \in Messages : errorOut' = StrictError(logger, errorOut, message)
    /\ lastCall' = "StrictError"
    /\ UNCHANGED <<logger, output>>
    /\ UNCHANGED <<ppVars, genVars, pkgVars, modVars, runVars, keyVars, pathVars, routeVars, cfgVars, defVars, normVars>>

LogStrictWarn ==
    /\ Room
    /\ \E message \in Messages : errorOut' = StrictWarn(logger, errorOut, message)
    /\ lastCall' = "StrictWarn"
    /\ UNCHANGED <<logger, output>>
    /\ UNCHANGED <<ppVars, genVars, pkgVars, modVars, runVars, keyVars, pathVars, routeVars, cfgVars, defVars, normVars>>

LogNext ==
    \/ SetGlobalLogLevel
    \/ SetGlobalLogStrictMode
    \/ LogError
    \/ LogWarn
    \/ LogInfo
    \/ LogDebug
    \/ LogStrictError
    \/ LogStrictWarn

LogInit == ParamIdle /\ GenIdle /\ PkgIdle /\ ModIdle /\ LogIdle /\ RunIdle /\ KeyIdle /\ PathIdle /\ RouteIdle /\ CfgIdle /\ DefIdle /\ NormIdle

SpecLog == LogInit /\ [][LogNext]_vars

\* The severity of the message a logging call carries.
Severity(call) ==
    CASE call \in {"Error", "StrictError"} -> LogLevelError
      [] call \in {"Warn", "StrictWarn"} -> LogLevelWarn
      [] call = "Info" -> LogLevelInfo
      [] call = "Debug" -> LogLevelDebug

\* C18: a logging call -- Error, Warn, Info, Debug, StrictError or
\* StrictWarn, in strict mode or outside it -- writes to an output only when
\* the logger's level is at least the severity of the message; at the level
\* silent nothing is written.
C18_LevelGatesOutput ==
    [][(output' # output \/ errorOut' # errorOut) =>
          logger.level >= Severity(lastCall')]_vars

====
